---- MODULE Spec2Model ----
(***************************************************************************)
(* Model of trello_career_planner: BoardGenerator.generate (generator.py)  *)
(* driving the remote create calls of TrelloClient, and                    *)
(* TrelloClient.update_card (api_client.py); TrelloClient._request behind  *)
(* every public operation; load_credentials and validate_credentials       *)
(* (credentials.py); main and its create, delete and verify modes          *)
(* (cli.py); the interactive edit session (cli.py, edit.py); and generate   *)
(* on the template get_tech_career_template returns (template.py).         *)
(*                                                                         *)
(* Python strings that the code only passes around (template names) are    *)
(* TLA+ strings; strings the code builds (request parameter values) are    *)
(* sequences of one-character strings, so that "" is <<>> and ",".join     *)
(* is computed.  An optional value is a sequence of length 0 (None) or 1.  *)
(***************************************************************************)
EXTENDS Integers, Sequences, FiniteSets, TLC

\* ------------------------------------------------------------------ bounds
MaxLabels == 2        \* labels of a template
MaxLists == 2         \* lists of a template
MaxCards == 2         \* cards of a template, over all its lists
MaxRuns == 2          \* calls of generate on one BoardGenerator
MaxUpdateLabels == 2  \* length of the labels argument of update_card
MaxKeyLen == 17       \* length of an API key given to validate_credentials
MaxTokenLen == 33     \* length of a token given to validate_credentials
MaxCreates == 2       \* create calls of generate after create_board, under main
MaxItems == 2         \* boards, lists of a board, cards of a list in a listing
MaxEntries == 2       \* inputs one numbered menu reads before its last
MaxFailures == 1      \* failed create calls of a run on the shipped template

\* ------------------------------------------------------------- optionals
None == <<>>
Some(x) == <<x>>

SeqsUpTo(S, n) == UNION {[1..k -> S] : k \in 0..n}

\* ------------------------------------------------------------- templates
LabelNames == {"P", "Q"}

\* CardTemplate.labels: label names a card refers to
CardLabelChoices == {<<>>, <<"Q">>, <<"Q", "P">>}

RECURSIVE total_cards(_)
\* sum(len(lst.cards) for lst in template.lists)
total_cards(lists) ==
  IF lists = <<>> THEN 0 ELSE Len(Head(lists)) + total_cards(Tail(lists))

\* BoardTemplate: labels is the sequence of LabelTemplate names, lists the
\* sequence of ListTemplate, each the sequence of its CardTemplate.labels
Templates ==
  {[labels |-> ls, lists |-> xs] :
     ls \in SeqsUpTo(LabelNames, MaxLabels),
     xs \in {ys \in SeqsUpTo(SeqsUpTo(CardLabelChoices, MaxCards), MaxLists) :
               total_cards(ys) <= MaxCards}}

\* mutant: the card "Update Resume" is labelled "Urgent", which no
\* LabelTemplate defines
get_tech_career_template_undefined_label ==
  [labels |-> <<"High Priority", "In Progress", "Completed", "Learning",
                "Networking", "Long Term">>,
   lists |-> <<
       <<<<"High Priority">>, <<"Long Term">>, <<"High Priority">>, <<"Long Term">>>>,
       <<<<"In Progress">>, <<"In Progress">>, <<"High Priority">>, <<"In Progress">>>>,
       <<<<"Learning">>, <<"Learning", "High Priority">>, <<"Learning">>,
         <<"Learning", "In Progress">>, <<"Learning", "Networking">>>>,
       <<<<"Networking", "High Priority">>, <<"Networking">>,
         <<"Networking", "High Priority">>, <<"Networking">>,
         <<"Networking", "Long Term">>>>,
       <<<<"Urgent">>, <<"High Priority">>, <<"In Progress">>,
         <<"In Progress">>, <<"In Progress">>>>,
       <<<<"Learning", "In Progress">>, <<"Networking", "In Progress">>,
         <<"Learning", "In Progress">>, <<"In Progress">>>>,
       <<<<"Completed">>>>
     >>]

\* template.py, get_tech_career_template: the names of its labels and, list
\* by list (Career Goals, Skills Assessment, Learning & Development,
\* Networking, Job Search Preparation, Weekly Actions, Completed), the labels
\* of each card
get_tech_career_template ==
  [labels |-> <<"High Priority", "In Progress", "Completed", "Learning",
                "Networking", "Long Term">>,
   lists |-> <<
       <<<<"High Priority">>, <<"Long Term">>, <<"High Priority">>, <<"Long Term">>>>,
       <<<<"In Progress">>, <<"In Progress">>, <<"High Priority">>, <<"In Progress">>>>,
       <<<<"Learning">>, <<"Learning", "High Priority">>, <<"Learning">>,
         <<"Learning", "In Progress">>, <<"Learning", "Networking">>>>,
       <<<<"Networking", "High Priority">>, <<"Networking">>,
         <<"Networking", "High Priority">>, <<"Networking">>,
         <<"Networking", "Long Term">>>>,
       <<<<"High Priority">>, <<"High Priority">>, <<"In Progress">>,
         <<"In Progress">>, <<"In Progress">>>>,
       <<<<"Learning", "In Progress">>, <<"Networking", "In Progress">>,
         <<"Learning", "In Progress">>, <<"In Progress">>>>,
       <<<<"Completed">>>>
     >>]

VARIABLES
  template,      \* the template argument of generate
  hasCallback,   \* whether a progress_callback is passed to generate
  pc,            \* position of generate: idle, board, labels, lists, cards, done, raised
  li, si, ci,    \* loop positions: label, list, card of the current list
  board_id,      \* local board_id of generate
  list_id,       \* local list_id of _create_lists_and_cards
  progress,      \* self.progress
  label_map,     \* self._label_map
  result,        \* the GeneratedBoard returned by the current run, if any
  run,           \* number of calls of generate so far
  nextId,        \* the next id the remote service hands out
  calls,         \* the remote calls issued by the current run, in order
  cbLog,         \* the progress_callback invocations of the current run, in order
  upd_args,      \* arguments of the last update_card call
  upd_sent,      \* the request the last update_card call sent, if any
  req_call,      \* the last client operation and the response it met
  req_out,       \* what that operation returned or raised
  environ,       \* os.environ: the two credential variables
  cred_call,     \* the last call of a credentials function, with os.environ before it
  cred_out,      \* what that call returned or raised
  impl,          \* the module of the edit session: "cli" (under main) or "edit"
  args,          \* the parsed command line
  cpc,           \* position of main and of the command it runs
  cmd_out,       \* what main (or run_edit_session) returned or raised, if it has
  client_made,   \* whether main has constructed the TrelloClient
  rlog,          \* the remote calls of the command, or of the current edit operation
  entered,       \* the inputs read by the current numbered menu, in order
  menu,          \* the numbered menu entered belongs to, and its result
  items,         \* the items of the current board or list menu
  board,         \* the id of the board the command works on
  answer,        \* the input read by the last confirmation prompt
  todo,          \* create calls left to generate in the creation flow
  handler,       \* the edit operation in progress
  update_choice, \* update_choice of the update operation
  cur_list,      \* the list selected (source list of a move)
  cards,         \* the cards of the selected list
  selected,      \* selected: the cards selected so far, in order
  target,        \* the target list of a move
  text,          \* the description or name typed for the operation
  bi,            \* position of the loop over the selected cards
  count,         \* moved_count, updated_count or deleted_count
  hres,          \* what the edit operation returned
  stdin          \* sys.stdin: "open", or "ended" once nothing is left to read

genVars == <<template, hasCallback, pc, li, si, ci, board_id, list_id, progress,
             label_map, result, run, nextId, calls, cbLog>>
updVars == <<upd_args, upd_sent>>
reqVars == <<req_call, req_out>>
credVars == <<environ, cred_call, cred_out>>
editVars == <<handler, update_choice, cur_list, cards, selected, target, text,
              bi, count, hres>>
cliVars == <<impl, args, cpc, cmd_out, client_made, rlog, entered, menu, items,
             board, answer, todo, editVars, stdin>>
extVars == <<reqVars, credVars, cliVars>>
vars == <<genVars, updVars, extVars>>

\* ------------------------------------------------------- GenerationProgress
GenerationProgress ==
  [total_lists |-> 0, total_cards |-> 0, lists_created |-> 0,
   cards_created |-> 0, labels_created |-> 0,
   current_step |-> <<"", 0, 0>>, errors |-> <<>>]

\* mutant: the callback is invoked before current_step is set
_update_progress_late(p, step, log, n) ==
  [progress |-> [p EXCEPT !.current_step = step],
   cbLog |-> IF hasCallback
               THEN Append(log, [progress |-> p, after |-> n])
               ELSE log]

\* self.progress.current_step = step; if callback: callback(self.progress)
\* The step text is <<kind, list or label position, card position>>.  The
\* callback sees the progress object as it is at the invocation; `after` is
\* the number of remote calls this run had issued before the invocation.
_update_progress(p, step, log, n) ==
  LET q == [p EXCEPT !.current_step = step]
  IN  [progress |-> q,
       cbLog |-> IF hasCallback
                   THEN Append(log, [progress |-> q, after |-> n])
                   ELSE log]

\* mutant: the except clause swallows the error
RecordError_pass(p, kind, i, j) == p

\* mutant: the except clause also reports the failure as the current step
RecordError_step(p, kind, i, j) ==
  [p EXCEPT !.errors = Append(@, <<kind, i, j>>),
            !.current_step = <<"Failed", i, j>>]

\* self.progress.errors.append(f"Failed to create <kind> <name>: {e}")
RecordError(p, kind, i, j) == [p EXCEPT !.errors = Append(@, <<kind, i, j>>)]

\* a remote create call: the operation, the template position it is issued
\* for, the id of the parent it is given (board id or list id), the labels
\* argument (create_card only), whether it succeeded and the id returned
Call(op, i, j, parent, labels, ok, ret) ==
  [op |-> op, idx |-> <<i, j>>, parent |-> parent, labels |-> labels,
   ok |-> ok, ret |-> ret]

EmptyMap == [n \in {} |-> 0]

\* self._label_map[label_template.name] = label["id"]
MapPut(m, name, id) ==
  [n \in DOMAIN m \cup {name} |-> IF n = name THEN id ELSE m[n]]

\* mutant: the ids are collected by walking the created labels (in template
\* order) and keeping those the card names
label_ids_map_order(card_labels, m) ==
  LET names == SelectSeq(template.labels,
                         LAMBDA n : n \in DOMAIN m
                                    /\ \E i \in 1..Len(card_labels) : card_labels[i] = n)
  IN  [i \in 1..Len(names) |-> m[names[i]]]

\* [self._label_map[n] for n in card_template.labels if n in self._label_map]
label_ids(card_labels, m) ==
  LET present == SelectSeq(card_labels, LAMBDA n : n \in DOMAIN m)
  IN  [i \in 1..Len(present) |-> m[present[i]]]

\* labels=label_ids if label_ids else None
labels_arg(ids) == IF ids # <<>> THEN Some(ids) ELSE None

\* mutant: _create_card has no try/except of its own
Caught_no_card == {"label", "list"}

\* the operations whose TrelloAPIError generate catches (try/except around
\* create_label, create_list and create_card; none around create_board)
Caught == {"label", "list", "card"}

\* ------------------------------------------------------------------ Init
GenIdle ==
  /\ pc = "idle" /\ li = 0 /\ si = 0 /\ ci = 0
  /\ board_id = 0 /\ list_id = 0
  /\ progress = GenerationProgress
  /\ label_map = EmptyMap
  /\ result = None
  /\ run = 0
  /\ nextId = 1
  /\ calls = <<>>
  /\ cbLog = <<>>

UpdIdle ==
  /\ upd_args = None
  /\ upd_sent = None

ReqIdle ==
  /\ req_call = None
  /\ req_out = None

CredIdle ==
  /\ environ = [n \in {"TRELLO_API_KEY", "TRELLO_TOKEN"} |-> None]
  /\ cred_call = None
  /\ cred_out = None

\* no command is running
CliIdle ==
  /\ impl = "cli" /\ args = [flags |-> {}] /\ cpc = "idle" /\ cmd_out = None
  /\ client_made = FALSE /\ rlog = <<>> /\ entered = <<>> /\ menu = None
  /\ items = <<>> /\ board = None /\ answer = None /\ todo = 0
  /\ handler = None /\ update_choice = None
  /\ cur_list = None /\ cards = <<>> /\ selected = <<>> /\ target = None
  /\ text = None /\ bi = 0 /\ count = 0 /\ hres = None
  /\ stdin = "open"

ExtIdle ==
  /\ ReqIdle
  /\ CredIdle
  /\ CliIdle

\* no generator is in use
NoGenerator ==
  /\ template = [labels |-> <<>>, lists |-> <<>>]
  /\ hasCallback = FALSE
  /\ GenIdle

Init ==
  /\ template \in Templates
  /\ hasCallback \in BOOLEAN
  /\ GenIdle
  /\ UpdIdle
  /\ ExtIdle

\* --------------------------------------------------------------- generate
\* whether a TrelloAPIError raised by the operation leaves generate
Propagates(op) == op \notin Caught

\* mutant: the count is incremented by two
Incr_twice(p, f) == [p EXCEPT ![f] = @ + 2]

\* self.progress.<field> += 1
Incr(p, f) == [p EXCEPT ![f] = @ + 1]

\* mutant: the label loop stops at the first label that fails
next_label_abort(ok, i) == IF ok THEN i + 1 ELSE Len(template.labels) + 1

\* for label_template in template.labels: the next label after label i
next_label(ok, i) == i + 1

\* mutant: the list loop stops at the first list that fails
next_list_abort(ok, i) == IF ok THEN i + 1 ELSE Len(template.lists) + 1

\* for list_template in template.lists: the next list after list i
next_list(ok, i) == i + 1

\* mutant: the card loop of a list stops at the first card that fails
next_card_abort(ok, j) == IF ok THEN j + 1 ELSE MaxCards + 1

\* for card_template in list_template.cards: the next card after card j
next_card(ok, j) == j + 1

\* mutant: the card loop is skipped for a list with a single card
enters_cards_multi(ok, ncards) == ok /\ ncards > 1

\* mutant: the card loop runs whether or not create_list returned
enters_cards_always(ok, ncards) == ncards > 0

\* the card loop of a list is inside the try block, after create_list: it is
\* entered only when create_list returned
enters_cards(ok, ncards) == ok /\ ncards > 0

\* mutant: generate keeps the label map of the run before
reset_label_map_skipped(m) == m

\* generate, line 74: self._label_map = {}
reset_label_map(m) == EmptyMap

\* generate, up to the call of create_board
generate ==
  /\ pc \in {"idle", "done", "raised"}
  /\ run < MaxRuns
  /\ run' = run + 1
  /\ LET p0 == [GenerationProgress EXCEPT
                  !.total_lists = Len(template.lists),
                  !.total_cards = total_cards(template.lists)]
         u == _update_progress(p0, <<"Creating board...", 0, 0>>, <<>>, 0)
     IN  progress' = u.progress /\ cbLog' = u.cbLog
  /\ label_map' = reset_label_map(label_map)
  /\ calls' = <<>>
  /\ result' = None
  /\ pc' = "board"
  /\ li' = 0 /\ si' = 0 /\ ci' = 0
  /\ board_id' = 0 /\ list_id' = 0
  /\ UNCHANGED <<template, hasCallback, nextId, updVars, extVars>>

\* board = self.client.create_board(...); a failure propagates out of generate
create_board ==
  /\ pc = "board"
  /\ \E ok \in BOOLEAN :
       /\ calls' = Append(calls, Call("board", 0, 0, 0, None, ok,
                                      IF ok THEN nextId ELSE 0))
       /\ IF ok
            THEN /\ board_id' = nextId
                 /\ nextId' = nextId + 1
                 /\ LET u == _update_progress(progress,
                                              <<"Creating labels...", 0, 0>>,
                                              cbLog, Len(calls'))
                    IN  progress' = u.progress /\ cbLog' = u.cbLog
                 /\ pc' = "labels"
                 /\ li' = 1
            ELSE /\ pc' = "raised"
                 /\ UNCHANGED <<board_id, nextId, progress, cbLog, li>>
  /\ UNCHANGED <<template, hasCallback, si, ci, list_id, label_map, result,
                 run, updVars, extVars>>

\* one iteration of the loop of _create_labels
_create_labels ==
  /\ pc = "labels"
  /\ li <= Len(template.labels)
  /\ \E ok \in BOOLEAN :
       /\ calls' = Append(calls, Call("label", li, 0, board_id, None, ok,
                                      IF ok THEN nextId ELSE 0))
       /\ IF ok
            THEN /\ label_map' = MapPut(label_map, template.labels[li], nextId)
                 /\ nextId' = nextId + 1
                 /\ LET u == _update_progress(Incr(progress, "labels_created"),
                                              <<"Created label", li, 0>>,
                                              cbLog, Len(calls'))
                    IN  progress' = u.progress /\ cbLog' = u.cbLog
                 /\ li' = next_label(ok, li)
                 /\ pc' = pc
            ELSE IF Propagates("label")
              THEN /\ pc' = "raised"
                   /\ UNCHANGED <<label_map, nextId, progress, cbLog, li>>
              ELSE /\ progress' = RecordError(progress, "label", li, 0)
                   /\ li' = next_label(ok, li)
                   /\ pc' = pc
                   /\ UNCHANGED <<label_map, nextId, cbLog>>
  /\ UNCHANGED <<template, hasCallback, si, ci, board_id, list_id, result,
                 run, updVars, extVars>>

\* _create_labels has returned:
\* self._update_progress("Creating lists and cards...", progress_callback)
labels_done ==
  /\ pc = "labels"
  /\ li > Len(template.labels)
  /\ LET u == _update_progress(progress,
                               <<"Creating lists and cards...", 0, 0>>,
                               cbLog, Len(calls))
     IN  progress' = u.progress /\ cbLog' = u.cbLog
  /\ pc' = "lists"
  /\ si' = 1
  /\ UNCHANGED <<template, hasCallback, li, ci, board_id, list_id, label_map,
                 result, run, nextId, calls, updVars, extVars>>

\* one iteration of the loop of _create_lists_and_cards, up to the card loop
_create_lists_and_cards ==
  /\ pc = "lists"
  /\ si <= Len(template.lists)
  /\ \E ok \in BOOLEAN :
       /\ calls' = Append(calls, Call("list", si, 0, board_id, None, ok,
                                      IF ok THEN nextId ELSE 0))
       /\ IF ok
            THEN /\ list_id' = nextId
                 /\ nextId' = nextId + 1
                 /\ LET u == _update_progress(Incr(progress, "lists_created"),
                                              <<"Created list", si, 0>>,
                                              cbLog, Len(calls'))
                    IN  progress' = u.progress /\ cbLog' = u.cbLog
            ELSE IF Propagates("list")
              THEN UNCHANGED <<list_id, nextId, progress, cbLog>>
              ELSE /\ progress' = RecordError(progress, "list", si, 0)
                   /\ UNCHANGED <<list_id, nextId, cbLog>>
       /\ IF ~ok /\ Propagates("list")
            THEN pc' = "raised" /\ UNCHANGED <<si, ci>>
            ELSE IF enters_cards(ok, Len(template.lists[si]))
              THEN pc' = "cards" /\ ci' = 1 /\ si' = si
              ELSE pc' = pc /\ si' = next_list(ok, si) /\ ci' = ci
  /\ UNCHANGED <<template, hasCallback, li, board_id, label_map, result, run,
                 updVars, extVars>>

\* _create_card for card ci of list si
_create_card ==
  /\ pc = "cards"
  /\ \E ok \in BOOLEAN :
       LET ids == label_ids(template.lists[si][ci], label_map) IN
       /\ calls' = Append(calls, Call("card", si, ci, list_id, labels_arg(ids),
                                      ok, IF ok THEN nextId ELSE 0))
       /\ IF ok
            THEN /\ nextId' = nextId + 1
                 /\ LET u == _update_progress(Incr(progress, "cards_created"),
                                              <<"Created card", si, ci>>,
                                              cbLog, Len(calls'))
                    IN  progress' = u.progress /\ cbLog' = u.cbLog
            ELSE IF Propagates("card")
              THEN UNCHANGED <<nextId, progress, cbLog>>
              ELSE /\ progress' = RecordError(progress, "card", si, ci)
                   /\ UNCHANGED <<nextId, cbLog>>
       /\ IF ~ok /\ Propagates("card")
            THEN pc' = "raised" /\ UNCHANGED <<si, ci>>
            ELSE IF next_card(ok, ci) <= Len(template.lists[si])
              THEN pc' = pc /\ ci' = next_card(ok, ci) /\ si' = si
              ELSE pc' = "lists" /\ si' = next_list(TRUE, si) /\ ci' = ci
  /\ UNCHANGED <<template, hasCallback, li, board_id, list_id, label_map,
                 result, run, updVars, extVars>>

\* _create_lists_and_cards has returned:
\* self._update_progress("Board generation complete!", progress_callback)
\* and return GeneratedBoard(...)
generate_return ==
  /\ pc = "lists"
  /\ si > Len(template.lists)
  /\ LET u == _update_progress(progress,
                               <<"Board generation complete!", 0, 0>>,
                               cbLog, Len(calls))
     IN  progress' = u.progress /\ cbLog' = u.cbLog
  /\ result' = Some([board_id |-> board_id,
                     lists_created |-> progress.lists_created,
                     cards_created |-> progress.cards_created,
                     labels_created |-> progress.labels_created])
  /\ pc' = "done"
  /\ UNCHANGED <<template, hasCallback, li, si, ci, board_id, list_id,
                 label_map, run, nextId, calls, updVars, extVars>>

\* ------------------------------------------------------------ update_card
\* the credentials of the client
api_key == <<"k">>
token == <<"t">>

\* TrelloClient._get_auth_params
_get_auth_params == [key |-> api_key, token |-> token]

RECURSIVE join(_, _)
\* sep.join(parts)
join(sep, parts) ==
  IF parts = <<>> THEN <<>>
  ELSE IF Len(parts) = 1 THEN parts[1]
  ELSE parts[1] \o sep \o join(sep, Tail(parts))

\* str(closed).lower()
str_lower(b) == IF b THEN <<"t", "r", "u", "e">> ELSE <<"f", "a", "l", "s", "e">>

\* the argument values update_card is called with
CardIds == {<<"c", "1">>}
TextArgs == {None, Some(<<>>), Some(<<"n">>)}
ClosedArgs == {None, Some(TRUE), Some(FALSE)}
DueArgs == {None, Some(<<>>), Some(<<"2", "0", "2", "6">>)}
LabelIdStrings == {<<"a">>, <<"b">>}
LabelsArgs == {None} \cup {Some(l) : l \in SeqsUpTo(LabelIdStrings, MaxUpdateLabels)}
UpdateArgs ==
  [card_id : CardIds, name : TextArgs, description : TextArgs,
   closed : ClosedArgs, due_date : DueArgs, labels : LabelsArgs]

\* mutant: the fields are tested for truth (if labels:) as create_card does
update_card_params_truthy(a) ==
  LET keys == {k \in {"name", "desc", "closed", "due", "idLabels"} :
                 CASE k = "name" -> a.name # None /\ a.name[1] # <<>>
                   [] k = "desc" -> a.description # None /\ a.description[1] # <<>>
                   [] k = "closed" -> a.closed # None /\ a.closed[1]
                   [] k = "due" -> a.due_date # None /\ a.due_date[1] # <<>>
                   [] k = "idLabels" -> a.labels # None /\ a.labels[1] # <<>>}
  IN  [k \in keys |->
         CASE k = "name" -> a.name[1]
           [] k = "desc" -> a.description[1]
           [] k = "closed" -> str_lower(a.closed[1])
           [] k = "due" -> a.due_date[1]
           [] k = "idLabels" -> join(<<",">>, a.labels[1])]

\* the params dict update_card builds
update_card_params(a) ==
  LET keys == {k \in {"name", "desc", "closed", "due", "idLabels"} :
                 CASE k = "name" -> a.name # None
                   [] k = "desc" -> a.description # None
                   [] k = "closed" -> a.closed # None
                   [] k = "due" -> a.due_date # None
                   [] k = "idLabels" -> a.labels # None}
  IN  [k \in keys |->
         CASE k = "name" -> a.name[1]
           [] k = "desc" -> a.description[1]
           [] k = "closed" -> str_lower(a.closed[1])
           [] k = "due" -> IF a.due_date[1] # <<>> THEN a.due_date[1]
                           ELSE <<"n", "u", "l", "l">>
           [] k = "idLabels" -> IF a.labels[1] # <<>>
                                  THEN join(<<",">>, a.labels[1])
                                  ELSE <<>>]

\* TrelloClient._request: the request handed to the session
_request(method, endpoint, params) ==
  LET auth == _get_auth_params
      request_params ==
        IF DOMAIN params # {}
          THEN [k \in DOMAIN auth \cup DOMAIN params |->
                  IF k \in DOMAIN params THEN params[k] ELSE auth[k]]
          ELSE auth
  IN  [method |-> method, url |-> endpoint, params |-> request_params]

\* TrelloClient.update_card, up to the request it sends
update_card ==
  \E a \in UpdateArgs :
    /\ upd_args' = Some(a)
    /\ upd_sent' = Some(_request("PUT", <<"/cards/", a.card_id>>,
                                 update_card_params(a)))
    /\ UNCHANGED <<genVars, extVars>>

\* update_card is called on a client whose generator is not in use
InitUpdate ==
  /\ template = [labels |-> <<>>, lists |-> <<>>]
  /\ hasCallback = FALSE
  /\ GenIdle
  /\ UpdIdle
  /\ ExtIdle

NextUpdate == update_card

SpecUpdate == InitUpdate /\ [][NextUpdate]_vars

Next ==
  \/ generate
  \/ create_board
  \/ _create_labels
  \/ labels_done
  \/ _create_lists_and_cards
  \/ _create_card
  \/ generate_return

Spec == Init /\ [][Next]_vars

\* ------------------------------------------ generate, the shipped template
\* generate is called without a template: template = get_tech_career_template()
InitShipped ==
  /\ template = get_tech_career_template
  /\ hasCallback \in BOOLEAN
  /\ GenIdle
  /\ UpdIdle
  /\ ExtIdle

\* the create calls of the current run that failed
Failures == Len(SelectSeq(calls, LAMBDA c : ~c.ok))

\* the runs in which at most MaxFailures create calls fail
NextShipped == Next /\ Failures' <= MaxFailures

SpecShipped == InitShipped /\ [][NextShipped]_vars

\* ------------------------------------------- TrelloClient._request: errors
\* the public operations of TrelloClient; each makes one _request
ClientOps ==
  {"verify_credentials", "create_board", "create_list", "create_card",
   "get_board", "get_board_lists", "get_list_cards", "delete_board",
   "create_label", "get_board_labels", "list_boards", "get_board_cards",
   "update_card", "move_card", "delete_card"}

\* operations that drop the value _request returns
ReturnsNothing == {"delete_board", "delete_card"}

\* HTTP status codes of the final response
Statuses == {200, 201, 300, 304, 399, 400, 401, 404, 499, 500, 599}

\* response bodies: the raw text and, when the text is JSON, the str() of
\* the parsed value
Bodies ==
  {[text |-> "{\"message\": \"invalid key\"}",
    json |-> Some("{'message': 'invalid key'}")],
   [text |-> "\"invalid key\"", json |-> Some("invalid key")],
   [text |-> "Server Error", json |-> None],
   [text |-> "", json |-> None]}

\* exceptions session.request raises when no response arrives
TransportErrors == {"ConnectionError", "Timeout", "TooManyRedirects"}

\* what the session hands back: a response, or a transport exception
Responses ==
  [kind : {"response"}, status : Statuses, body : Bodies]
    \cup [kind : {"exception"}, exc : TransportErrors]

\* Response.raise_for_status raises HTTPError
raise_for_status(status) == 400 <= status /\ status < 600

TrelloAPIError(message, status_code) ==
  [kind |-> "TrelloAPIError", message |-> message, status_code |-> status_code]

\* mutant: the handler of HTTPError drops the status code
http_error_no_status(r) ==
  TrelloAPIError(<<"Trello API error: ",
                   IF r.body.json # None THEN r.body.json[1] ELSE r.body.text>>,
                 None)

\* the except HTTPError branch of _request
http_error(r) ==
  TrelloAPIError(<<"Trello API error: ",
                   IF r.body.json # None THEN r.body.json[1] ELSE r.body.text>>,
                 Some(r.status))

\* TrelloClient._request after the request was sent: what it returns or
\* raises.  decode_is_request_exception: whether the error response.json()
\* raises on a body that is not JSON is a RequestException (it is in
\* requests >= 2.27, and a plain ValueError before)
_request_outcome(r, decode_is_request_exception) ==
  IF r.kind = "exception"
    THEN TrelloAPIError(<<"Request failed: ", r.exc>>, None)
  ELSE IF raise_for_status(r.status)
    THEN http_error(r)
  ELSE IF r.body.json # None
    THEN [kind |-> "return", value |-> r.body.json]
  ELSE IF decode_is_request_exception
    THEN TrelloAPIError(<<"Request failed: ", "JSONDecodeError">>, None)
  ELSE [kind |-> "ValueError"]

\* a public operation: the outcome of its _request, the value dropped by
\* the operations that return None
client_call(op, r, d) ==
  LET out == _request_outcome(r, d)
  IN  IF out.kind = "return" /\ op \in ReturnsNothing
        THEN [kind |-> "return", value |-> None]
        ELSE out

\* one operation of the client meets one response
request ==
  \E op \in ClientOps, r \in Responses, d \in BOOLEAN :
    /\ req_call' = Some([op |-> op, response |-> r])
    /\ req_out' = Some(client_call(op, r, d))
    /\ UNCHANGED <<genVars, updVars, credVars, cliVars>>

InitRequest ==
  /\ NoGenerator
  /\ UpdIdle
  /\ ExtIdle

NextRequest == request

SpecRequest == InitRequest /\ [][NextRequest]_vars

\* ------------------------------------------------------------ credentials
\* a string of n characters c
Str(c, n) == [i \in 1..n |-> c]

\* Python truth of an optional string: neither None nor ""
Truthy(x) == x # None /\ x[1] # <<>>

\* x or y
Or(x, y) == IF Truthy(x) THEN x ELSE y

EnvNames == {"TRELLO_API_KEY", "TRELLO_TOKEN"}

\* the values one name can have in os.environ, as the process starts
EnvValues == {None, Some(<<>>), Some(<<"e">>)}
\* the values one name can have in a .env file
FileValues == {None, Some(<<>>), Some(<<"f">>)}
\* the values of an explicit argument
ArgValues == {None, Some(<<>>), Some(<<"a">>)}
\* the env_file argument
EnvFileArgs == {None, Some(""), Some("creds.env")}

LoadArgs ==
  [api_key : ArgValues, token : ArgValues, env_file : EnvFileArgs,
   exists : BOOLEAN, file : [EnvNames -> FileValues]]

CredentialError(message) == [kind |-> "CredentialError", message |-> message]

\* mutant: load_dotenv(override=True), the file wins over the environment
load_dotenv_override(file, env) ==
  [n \in EnvNames |-> IF file[n] # None THEN file[n] ELSE env[n]]

\* dotenv.load_dotenv: a name of the file is set in os.environ unless
\* os.environ has it already
load_dotenv(file, env) ==
  [n \in EnvNames |-> IF env[n] # None THEN env[n] ELSE file[n]]

\* load_credentials: the outcome and os.environ after the call.  a.file is
\* the content of the file load_dotenv reads (no name when there is no file)
load_credentials(a, env) ==
  IF a.env_file # None /\ a.env_file[1] # "" /\ ~a.exists
    THEN [out |-> CredentialError("Environment file not found"), environ |-> env]
  ELSE
    LET env2 == load_dotenv(a.file, env)
        resolved_api_key == Or(a.api_key, env2["TRELLO_API_KEY"])
        resolved_token == Or(a.token, env2["TRELLO_TOKEN"])
    IN  [out |-> IF ~Truthy(resolved_api_key)
                   THEN CredentialError("Trello API key not found")
                 ELSE IF ~Truthy(resolved_token)
                   THEN CredentialError("Trello token not found")
                 ELSE [kind |-> "return",
                       value |-> [api_key |-> resolved_api_key[1],
                                  token |-> resolved_token[1]]],
         environ |-> env2]

\* the credentials validate_credentials is called with: TrelloCredentials
\* holds no empty field
ValidateArgs ==
  [api_key : {Str("k", n) : n \in 1..MaxKeyLen},
   token : {Str("t", n) : n \in 1..MaxTokenLen}]

\* mutant: the token is checked before the key
validate_credentials_token_first(c) ==
  IF Len(c.token) < 32 THEN CredentialError("Token appears too short")
  ELSE IF Len(c.api_key) < 16 THEN CredentialError("API key appears too short")
  ELSE [kind |-> "return", value |-> TRUE]

\* validate_credentials
validate_credentials(c) ==
  IF Len(c.api_key) < 16 THEN CredentialError("API key appears too short")
  ELSE IF Len(c.token) < 32 THEN CredentialError("Token appears too short")
  ELSE [kind |-> "return", value |-> TRUE]

\* a call of load_credentials
call_load_credentials ==
  \E a \in LoadArgs :
    LET r == load_credentials(a, environ)
    IN  /\ cred_call' = Some([fn |-> "load_credentials", args |-> a,
                              environ |-> environ])
        /\ cred_out' = Some(r.out)
        /\ environ' = r.environ
        /\ UNCHANGED <<genVars, updVars, reqVars, cliVars>>

\* a call of validate_credentials
call_validate_credentials ==
  \E c \in ValidateArgs :
    /\ cred_call' = Some([fn |-> "validate_credentials", args |-> c])
    /\ cred_out' = Some(validate_credentials(c))
    /\ UNCHANGED <<genVars, updVars, reqVars, environ, cliVars>>

InitCredentials ==
  /\ NoGenerator
  /\ UpdIdle
  /\ ReqIdle
  /\ CliIdle
  /\ environ \in [EnvNames -> EnvValues]
  /\ cred_call = None
  /\ cred_out = None

NextCredentials == call_load_credentials

SpecCredentials == InitCredentials /\ [][NextCredentials]_vars

InitValidate ==
  /\ NoGenerator
  /\ UpdIdle
  /\ ExtIdle

NextValidate == call_validate_credentials

SpecValidate == InitValidate /\ [][NextValidate]_vars

\* --------------------------------------------------- console input, text
Whitespace == {" "}
Digits == <<"0", "1", "2", "3", "4", "5", "6", "7", "8", "9">>
UpperCase == <<"Y", "E", "S", "N", "O">>
LowerCase == <<"y", "e", "s", "n", "o">>

RECURSIVE lstrip(_)
lstrip(s) ==
  IF s # <<>> /\ Head(s) \in Whitespace THEN lstrip(Tail(s)) ELSE s

RECURSIVE rstrip(_)
rstrip(s) ==
  IF s # <<>> /\ s[Len(s)] \in Whitespace
    THEN rstrip(SubSeq(s, 1, Len(s) - 1)) ELSE s

\* str.strip()
strip(s) == lstrip(rstrip(s))

\* str.lower(), over the letters the inputs use
lower(s) ==
  [i \in DOMAIN s |->
     IF \E k \in DOMAIN UpperCase : UpperCase[k] = s[i]
       THEN LowerCase[CHOOSE k \in DOMAIN UpperCase : UpperCase[k] = s[i]]
       ELSE s[i]]

IsDigit(c) == \E k \in DOMAIN Digits : Digits[k] = c
DigitValue(c) == (CHOOSE k \in DOMAIN Digits : Digits[k] = c) - 1

RECURSIVE digits_value(_)
digits_value(s) ==
  IF s = <<>> THEN 0
  ELSE 10 * digits_value(SubSeq(s, 1, Len(s) - 1)) + DigitValue(s[Len(s)])

\* int(s): Some(n), or None when int raises ValueError
int(s) ==
  LET t == strip(s)
      signed == t # <<>> /\ Head(t) \in {"+", "-"}
      d == IF signed THEN Tail(t) ELSE t
  IN  IF d = <<>> \/ \E i \in DOMAIN d : ~IsDigit(d[i]) THEN None
      ELSE IF signed /\ Head(t) = "-" THEN Some(0 - digits_value(d))
      ELSE Some(digits_value(d))

\* what input() gives: a line, or EOFError or KeyboardInterrupt raised
Line(t) == [kind |-> "line", text |-> t]
EOFError == [kind |-> "EOFError"]
KeyboardInterrupt == [kind |-> "KeyboardInterrupt"]

\* the lines typed at a numbered menu
MenuLines ==
  {<<"0">>, <<"1">>, <<"2">>, <<"3">>, <<"4">>, <<" ", "2", " ">>,
   <<"-", "1">>, <<"0", "0">>, <<"x">>}
\* the lines typed at a confirmation prompt
ConfirmLines ==
  {<<"y", "e", "s">>, <<"y">>, <<" ", "Y", "E", "S", " ">>, <<"Y">>,
   <<"n", "o">>, <<>>, <<"y", "e", "s", "s">>}
\* the lines typed where a name or a description is asked
TextLines == {<<>>, <<" ">>, <<"n">>, <<" ", "n", " ">>}

MenuInputs == {Line(t) : t \in MenuLines} \cup {EOFError, KeyboardInterrupt}
ConfirmInputs == {Line(t) : t \in ConfirmLines} \cup {EOFError, KeyboardInterrupt}
TextInputs == {Line(t) : t \in TextLines} \cup {EOFError, KeyboardInterrupt}

\* input(): what a prompt whose user can type the inputs S reads; once the
\* input stream has ended every read raises EOFError
input(S) == IF stdin = "ended" THEN {EOFError} ELSE S

\* sys.stdin after a read: what was read may have been the last of the stream
after_input == {stdin, "ended"}

\* ---------------------------------------------------------------- cli.main
\* ids of the remote entities: the k-th board, list or card of a listing
Id(kind, k) == <<kind, k>>
Listing(kind, n) == [k \in 1..n |-> Id(kind, k)]

\* the flags of the command line
Flags == {"setup_help", "dry_run", "verify_only", "delete", "edit"}

\* the board_id argument: absent, empty, or the id of a board
BoardIdArgs == {None, Some(<<>>), Some(Id("board", 0))}

\* the credential arguments with the files and the environment they meet:
\* nothing anywhere; a key of 15 characters; a token of 31; a valid pair
\* from the environment; a valid explicit pair; a missing env_file
NoFile == [n \in EnvNames |-> None]
NoEnv == [n \in EnvNames |-> None]
EnvOf(k, t) ==
  [n \in EnvNames |-> IF n = "TRELLO_API_KEY" THEN Some(Str("e", k))
                      ELSE Some(Str("e", t))]
CredentialCases ==
  {[api_key |-> None, token |-> None, env_file |-> None, exists |-> FALSE,
    file |-> NoFile, environ |-> NoEnv],
   [api_key |-> None, token |-> None, env_file |-> None, exists |-> FALSE,
    file |-> NoFile, environ |-> EnvOf(15, 32)],
   [api_key |-> None, token |-> None, env_file |-> None, exists |-> FALSE,
    file |-> NoFile, environ |-> EnvOf(16, 31)],
   [api_key |-> Some(Str("a", 16)), token |-> None, env_file |-> None,
    exists |-> FALSE, file |-> NoFile, environ |-> EnvOf(15, 32)],
   [api_key |-> Some(Str("a", 16)), token |-> Some(Str("a", 32)),
    env_file |-> Some("creds.env"), exists |-> FALSE, file |-> NoFile,
    environ |-> NoEnv]}

\* the parsed arguments; board_id is given with --delete or --edit only,
\* --yes with --delete only
Args ==
  {a \in [flags : SUBSET Flags, board_id : BoardIdArgs, yes : BOOLEAN,
          cred : CredentialCases] :
     /\ a.board_id # None => "delete" \in a.flags \/ "edit" \in a.flags
     /\ a.yes => "delete" \in a.flags}

\* outcomes of a remote call made by a command: it returns, raises
\* TrelloAPIError, or is interrupted from the keyboard
RemoteOutcomes == {"ok", "TrelloAPIError", "KeyboardInterrupt"}

Remote(op, arg, out) == [op |-> op, arg |-> arg, out |-> out]

Return(v) == Some([kind |-> "return", value |-> v])
Raise(e) == Some([kind |-> "raise", exc |-> e])

\* an exception main and its commands do not catch leaves them
Escapes(out) == out = "KeyboardInterrupt"

\* main, lines 711-721: load_credentials and validate_credentials under
\* except CredentialError; the outcome of the two calls
main_credentials(c, env) ==
  LET l == load_credentials(c, env)
      v == IF l.out.kind = "return" THEN validate_credentials(l.out.value)
           ELSE l.out
  IN  [out |-> IF l.out.kind = "return" /\ v.kind = "return" THEN l.out ELSE v,
       environ |-> l.environ]

\* mutant: the client is constructed before the credentials are loaded
constructs_client_first(o) == TRUE

\* main, line 723: the client is constructed once no CredentialError was raised
constructs_client(o) == o.kind = "return"

\* the command main dispatches to, lines 728-737
main_mode(flags) ==
  IF "verify_only" \in flags THEN "verify_credentials_only"
  ELSE IF "delete" \in flags THEN "delete_board_command"
  ELSE IF "edit" \in flags THEN "edit_board_command"
  ELSE "create_verify"

\* mutant: --dry-run is tested after the mode flags
prints_only_before_modes(flags) ==
  "setup_help" \in flags
    \/ ("dry_run" \in flags /\ flags \cap {"verify_only", "delete", "edit"} = {})

\* main, lines 703-709: --setup-help and --dry-run print and return 0
\* before anything else is looked at
prints_only(flags) == "setup_help" \in flags \/ "dry_run" \in flags

\* main, from its start to the command it dispatches to
main ==
  /\ cpc = "main"
  /\ IF prints_only(args.flags)
       THEN /\ cmd_out' = Return(0)
            /\ cpc' = "exit"
            /\ UNCHANGED <<client_made, credVars>>
       ELSE LET r == main_credentials(args.cred, environ)
            IN  /\ cred_call' = Some([fn |-> "main", args |-> args.cred,
                                      environ |-> environ])
                /\ cred_out' = Some(r.out)
                /\ environ' = r.environ
                /\ client_made' = constructs_client(r.out)
                /\ IF r.out.kind = "CredentialError"
                     THEN cmd_out' = Return(1) /\ cpc' = "exit"
                     ELSE cmd_out' = None /\ cpc' = main_mode(args.flags)
  /\ UNCHANGED <<impl, args, rlog, entered, menu, items, board, answer, todo,
                 editVars>>
  /\ UNCHANGED <<genVars, updVars, reqVars>>
  /\ UNCHANGED stdin

\* verify_credentials_only
verify_credentials_only ==
  /\ cpc = "verify_credentials_only"
  /\ \E out \in RemoteOutcomes :
       /\ rlog' = Append(rlog, Remote("verify_credentials", None, out))
       /\ cmd_out' = IF Escapes(out) THEN Raise(out)
                     ELSE Return(IF out = "ok" THEN 0 ELSE 1)
  /\ cpc' = "exit"
  /\ UNCHANGED <<impl, args, client_made, entered, menu, items, board, answer,
                 todo, editVars>>
  /\ UNCHANGED <<genVars, updVars, reqVars, credVars>>
  /\ UNCHANGED stdin

\* mutant: main has no except KeyboardInterrupt clause
main_except_api_only(e) ==
  IF e = "TrelloAPIError" THEN Return(1) ELSE Raise(e)

\* main, lines 762-767: the except clauses of the creation flow
main_except(e) ==
  IF e = "TrelloAPIError" THEN Return(1)
  ELSE IF e = "KeyboardInterrupt" THEN Return(130)
  ELSE Raise(e)

\* mutant: the TrelloAPIError of verify_credentials is caught on the spot
\* and the creation goes on
verified_or_failed(out) == out \in {"ok", "TrelloAPIError"}

\* main, lines 737-747: create_career_board is reached once
\* client.verify_credentials() has returned
verified(out) == out = "ok"

\* main, line 741: client.verify_credentials() of the creation flow
create_verify ==
  /\ cpc = "create_verify"
  /\ \E out \in RemoteOutcomes :
       /\ rlog' = Append(rlog, Remote("verify_credentials", None, out))
       /\ IF verified(out)
            THEN cpc' = "create_career_board" /\ cmd_out' = None
            ELSE cpc' = "exit" /\ cmd_out' = main_except(out)
  /\ UNCHANGED <<impl, args, client_made, entered, menu, items, board, answer,
                 todo, editVars>>
  /\ UNCHANGED <<genVars, updVars, reqVars, credVars>>
  /\ UNCHANGED stdin

\* main, line 747: create_career_board, up to the create_board call of
\* generate; todo is the number of create calls the template asks for
\* after it
create_career_board ==
  /\ cpc = "create_career_board"
  /\ \E out \in RemoteOutcomes :
       /\ rlog' = Append(rlog, Remote("create_board", None, out))
       /\ IF out = "ok"
            THEN /\ cpc' = "create_rest" /\ cmd_out' = None
                 /\ todo' \in 0..MaxCreates
            ELSE /\ cpc' = "exit" /\ cmd_out' = main_except(out)
                 /\ todo' = todo
  /\ UNCHANGED <<impl, args, client_made, entered, menu, items, board, answer,
                 editVars>>
  /\ UNCHANGED <<genVars, updVars, reqVars, credVars>>
  /\ UNCHANGED stdin

\* the rest of generate under main: each create call of a label, a list or
\* a card; its TrelloAPIError stays inside generate; main returns 0 after
\* the last
create_rest ==
  /\ cpc = "create_rest"
  /\ IF todo = 0
       THEN /\ cpc' = "exit" /\ cmd_out' = Return(0)
            /\ UNCHANGED <<rlog, todo>>
       ELSE \E op \in Caught, out \in RemoteOutcomes :
              /\ rlog' = Append(rlog, Remote(op, None, out))
              /\ IF Escapes(out)
                   THEN cpc' = "exit" /\ cmd_out' = main_except(out)
                   ELSE cpc' = cpc /\ cmd_out' = None
              /\ todo' = todo - 1
  /\ UNCHANGED <<impl, args, client_made, entered, menu, items, board, answer,
                 editVars>>
  /\ UNCHANGED <<genVars, updVars, reqVars, credVars>>
  /\ UNCHANGED stdin

\* -------------------------------------------------- delete_board_command
\* mutant: a TrelloAPIError ends the command like a cancellation
command_except_cancelled(out) ==
  IF out = "TrelloAPIError" THEN Return(0) ELSE Raise(out)

\* what a command does with the outcome of a remote call it makes under
\* except TrelloAPIError: the exit code 1, or the exception leaving it
command_except(out) ==
  IF out = "TrelloAPIError" THEN Return(1) ELSE Raise(out)

\* mutant: any answer but "no" confirms
confirm_deletion_unless_no(in) ==
  in.kind = "line" /\ lower(strip(in.text)) # <<"n", "o">>

\* confirm_deletion, and the confirmation of delete_cards
confirm_deletion(in) ==
  in.kind = "line"
    /\ lower(strip(in.text)) \in {<<"y", "e", "s">>, <<"y">>}

\* mutant: the index is not tested against 0, and a negative index counts
\* from the end of the list
_get_numeric_choice_negative(in, n) ==
  IF in.kind # "line" THEN [kind |-> "cancel"]
  ELSE IF strip(in.text) = <<"0">> THEN [kind |-> "cancel"]
  ELSE IF int(strip(in.text)) = None THEN [kind |-> "again"]
  ELSE LET idx == int(strip(in.text))[1] - 1
       IN  IF 0 - n <= idx /\ idx < n
             THEN [kind |-> "item",
                   number |-> IF idx < 0 THEN n + idx + 1 ELSE idx + 1]
           ELSE [kind |-> "again"]

\* one pass of the loop of a numbered menu of n items on input in (the same
\* in select_board_for_deletion, select_board_for_editing,
\* select_list_from_board, _prompt_selection and _get_numeric_choice):
\* "cancel", the
\* 1-based number of an item, or "again"
_get_numeric_choice(in, n) ==
  IF in.kind # "line" THEN [kind |-> "cancel"]
  ELSE IF strip(in.text) = <<"0">> THEN [kind |-> "cancel"]
  ELSE IF int(strip(in.text)) = None THEN [kind |-> "again"]
  ELSE LET idx == int(strip(in.text))[1] - 1
       IN  IF 0 <= idx /\ idx < n THEN [kind |-> "item", number |-> idx + 1]
           ELSE [kind |-> "again"]

\* the numbered menu the inputs of entered were read at: its kind, the
\* number of its items, whether it has returned, and what it returned
Menu(kind, n, done, res) ==
  Some([kind |-> kind, n |-> n, done |-> done, result |-> res])

\* delete_board_command, up to the board it looks up: the board_id given,
\* or the listing select_board_for_deletion shows
delete_board_command ==
  /\ cpc = "delete_board_command"
  /\ IF args.board_id # None /\ args.board_id[1] # <<>>
       THEN /\ board' = args.board_id
            /\ cpc' = "delete_get_board"
            /\ menu' = None
            /\ UNCHANGED <<rlog, items, cmd_out>>
       ELSE \E out \in RemoteOutcomes, n \in 0..MaxItems :
              /\ rlog' = Append(rlog, Remote("list_boards", None, out))
              /\ board' = None
              /\ IF out # "ok"
                   THEN /\ cmd_out' = command_except(out) /\ cpc' = "exit"
                        /\ items' = <<>> /\ menu' = None
                   ELSE /\ items' = Listing("board", n)
                        /\ IF n = 0
                             THEN /\ cmd_out' = Return(0) /\ cpc' = "exit"
                                  /\ menu' = Menu("board", 0, TRUE, None)
                             ELSE /\ cmd_out' = None
                                  /\ cpc' = "select_board_for_deletion"
                                  /\ menu' = Menu("board", n, FALSE, None)
  /\ entered' = <<>>
  /\ UNCHANGED <<impl, args, client_made, answer, todo, editVars>>
  /\ UNCHANGED <<genVars, updVars, reqVars, credVars>>
  /\ UNCHANGED stdin

\* the loop of a menu reads on: within the bound on the inputs of one loop
ReadsOn == Len(entered) < MaxEntries

\* select_board_for_deletion: one input of its loop
select_board_for_deletion ==
  /\ cpc = "select_board_for_deletion"
  /\ \E in \in input(MenuInputs) :
       LET c == _get_numeric_choice(in, Len(items))
       IN  /\ c.kind = "again" => ReadsOn
           /\ entered' = Append(entered, in)
           /\ CASE c.kind = "cancel" ->
                     /\ board' = None /\ cmd_out' = Return(0) /\ cpc' = "exit"
                     /\ menu' = Menu("board", Len(items), TRUE, None)
                [] c.kind = "item" ->
                     /\ board' = Some(items[c.number]) /\ cmd_out' = None
                     /\ cpc' = "delete_get_board"
                     /\ menu' = Menu("board", Len(items), TRUE,
                                     Some(items[c.number]))
                [] c.kind = "again" ->
                     UNCHANGED <<board, cmd_out, cpc, menu>>
  /\ UNCHANGED <<impl, args, client_made, rlog, items, answer, todo, editVars>>
  /\ UNCHANGED <<genVars, updVars, reqVars, credVars>>
  /\ stdin' \in after_input

\* delete_board_command: client.get_board of the board to delete
delete_get_board ==
  /\ cpc = "delete_get_board"
  /\ \E out \in RemoteOutcomes :
       /\ rlog' = Append(rlog, Remote("get_board", board[1], out))
       /\ IF out # "ok"
            THEN cmd_out' = command_except(out) /\ cpc' = "exit"
            ELSE /\ cmd_out' = None
                 /\ cpc' = IF args.yes THEN "delete_board" ELSE "confirm_deletion"
  /\ entered' = <<>> /\ menu' = None
  /\ UNCHANGED <<impl, args, client_made, items, board, answer, todo, editVars>>
  /\ UNCHANGED <<genVars, updVars, reqVars, credVars>>
  /\ UNCHANGED stdin

\* delete_board_command: the confirmation, asked unless --yes
confirm_board_deletion ==
  /\ cpc = "confirm_deletion"
  /\ \E in \in input(ConfirmInputs) :
       /\ answer' = Some(in)
       /\ IF confirm_deletion(in)
            THEN cmd_out' = None /\ cpc' = "delete_board"
            ELSE cmd_out' = Return(0) /\ cpc' = "exit"
  /\ entered' = <<>> /\ menu' = None
  /\ UNCHANGED <<impl, args, client_made, rlog, items, board, todo, editVars>>
  /\ UNCHANGED <<genVars, updVars, reqVars, credVars>>
  /\ stdin' \in after_input

\* delete_board_command: client.delete_board
delete_board ==
  /\ cpc = "delete_board"
  /\ \E out \in RemoteOutcomes :
       /\ rlog' = Append(rlog, Remote("delete_board", board[1], out))
       /\ cmd_out' = IF out = "ok" THEN Return(0) ELSE command_except(out)
  /\ cpc' = "exit"
  /\ UNCHANGED <<impl, args, client_made, entered, menu, items, board, answer,
                 todo, editVars>>
  /\ UNCHANGED <<genVars, updVars, reqVars, credVars>>
  /\ UNCHANGED stdin

\* ------------------------------ edit_board_command and run_edit_session
\* what the edit command returns when no board was selected:
\* edit_board_command returns 0, run_edit_session 0 if board_id is None else 1
no_board_selected(im, bid) ==
  IF im = "cli" THEN 0 ELSE IF bid = None THEN 0 ELSE 1

\* the edit command, up to the board it looks up: the board_id given, or
\* the listing select_board_for_editing (select_board) shows; a
\* TrelloAPIError of list_boards is caught there and no board is selected
edit_board_command ==
  /\ cpc = "edit_board_command"
  /\ IF args.board_id # None /\ args.board_id[1] # <<>>
       THEN /\ board' = args.board_id
            /\ cpc' = "edit_get_board"
            /\ menu' = None
            /\ UNCHANGED <<rlog, items, cmd_out>>
       ELSE \E out \in RemoteOutcomes, n \in 0..MaxItems :
              /\ rlog' = Append(rlog, Remote("list_boards", None, out))
              /\ board' = None
              /\ CASE out = "KeyboardInterrupt" ->
                        /\ cmd_out' = Raise(out) /\ cpc' = "exit"
                        /\ items' = <<>> /\ menu' = None
                   [] out = "TrelloAPIError" ->
                        /\ cmd_out' = Return(no_board_selected(impl, args.board_id))
                        /\ cpc' = "exit"
                        /\ items' = <<>> /\ menu' = None
                   [] out = "ok" ->
                        /\ items' = Listing("board", n)
                        /\ IF n = 0
                             THEN /\ cmd_out' =
                                       Return(no_board_selected(impl, args.board_id))
                                  /\ cpc' = "exit"
                                  /\ menu' = Menu("board", 0, TRUE, None)
                             ELSE /\ cmd_out' = None
                                  /\ cpc' = "select_board_for_editing"
                                  /\ menu' = Menu("board", n, FALSE, None)
  /\ entered' = <<>>
  /\ UNCHANGED <<impl, args, client_made, answer, todo, editVars>>
  /\ UNCHANGED <<genVars, updVars, reqVars, credVars>>
  /\ UNCHANGED stdin

\* the edit command: client.get_board of the board_id given
edit_get_board ==
  /\ cpc = "edit_get_board"
  /\ \E out \in RemoteOutcomes :
       /\ rlog' = Append(rlog, Remote("get_board", board[1], out))
       /\ CASE out = "ok" -> cmd_out' = None /\ cpc' = "show_edit_menu"
            [] out = "TrelloAPIError" -> cmd_out' = Return(1) /\ cpc' = "exit"
            [] out = "KeyboardInterrupt" -> cmd_out' = Raise(out) /\ cpc' = "exit"
  /\ entered' = <<>> /\ menu' = None
  /\ UNCHANGED <<impl, args, client_made, items, board, answer, todo, editVars>>
  /\ UNCHANGED <<genVars, updVars, reqVars, credVars>>
  /\ UNCHANGED stdin

\* select_board_for_editing (_prompt_selection): one input of its loop
select_board_for_editing ==
  /\ cpc = "select_board_for_editing"
  /\ \E in \in input(MenuInputs) :
       LET c == _get_numeric_choice(in, Len(items))
       IN  /\ c.kind = "again" => ReadsOn
           /\ entered' = Append(entered, in)
           /\ CASE c.kind = "cancel" ->
                     /\ board' = None
                     /\ cmd_out' = Return(no_board_selected(impl, args.board_id))
                     /\ cpc' = "exit"
                     /\ menu' = Menu("board", Len(items), TRUE, None)
                [] c.kind = "item" ->
                     /\ board' = Some(items[c.number]) /\ cmd_out' = None
                     /\ cpc' = "show_edit_menu"
                     /\ menu' = Menu("board", Len(items), TRUE,
                                     Some(items[c.number]))
                [] c.kind = "again" ->
                     UNCHANGED <<board, cmd_out, cpc, menu>>
  /\ UNCHANGED <<impl, args, client_made, rlog, items, answer, todo, editVars>>
  /\ UNCHANGED <<genVars, updVars, reqVars, credVars>>
  /\ stdin' \in after_input

\* the operations of the menu: handlers of _run_menu_loop, the elif chain
\* of edit_board_command
handlers ==
  [c \in {<<"1">>, <<"2">>, <<"3">>, <<"4">>} |->
     CASE c = <<"1">> -> "add_card"
       [] c = <<"2">> -> "move_cards"
       [] c = <<"3">> -> "update_cards"
       [] c = <<"4">> -> "delete_cards"]

\* mutant: end of input or an interrupt is an empty choice
show_menu_empty(in) == IF in.kind = "line" THEN strip(in.text) ELSE <<>>

\* show_edit_menu (show_menu): the choice typed, "0" on EOF or interrupt
show_menu(in) == IF in.kind = "line" THEN strip(in.text) ELSE <<"0">>

\* one pass of the menu loop: exit on "0", dispatch on "1".."4", and ask
\* again on anything else; entered is the input of this pass
show_edit_menu ==
  /\ cpc = "show_edit_menu"
  /\ \E in \in input(MenuInputs) :
       LET choice == show_menu(in)
       IN  /\ entered' = <<in>>
           /\ IF choice = <<"0">>
                THEN /\ cmd_out' = Return(0) /\ cpc' = "exit"
                     /\ menu' = Menu("edit", 4, TRUE, None)
                     /\ UNCHANGED <<handler, rlog>>
              ELSE IF choice \in DOMAIN handlers
                THEN /\ handler' = Some(handlers[choice])
                     /\ rlog' = <<>>
                     /\ cpc' = "get_board_lists"
                     /\ cmd_out' = None
                     /\ menu' = Menu("edit", 4, TRUE, Some(handlers[choice]))
              ELSE /\ menu' = Menu("edit", 4, FALSE, None)
                   /\ UNCHANGED <<cmd_out, cpc, handler, rlog>>
  /\ UNCHANGED <<impl, args, client_made, items, board, answer, todo,
                 update_choice, cur_list, cards, selected, target, text, bi,
                 count, hres>>
  /\ UNCHANGED <<genVars, updVars, reqVars, credVars>>
  /\ stdin' \in after_input

\* an operation returns to the menu loop, which ignores what it returned
handler_returns ==
  /\ cpc = "handler_return"
  /\ cpc' = "show_edit_menu"
  /\ handler' = None /\ update_choice' = None /\ cur_list' = None
  /\ cards' = <<>> /\ selected' = <<>> /\ target' = None /\ text' = None
  /\ bi' = 0 /\ count' = 0 /\ hres' = None
  /\ rlog' = <<>> /\ entered' = <<>> /\ menu' = None /\ items' = <<>>
  /\ answer' = None
  /\ UNCHANGED <<impl, args, client_made, cmd_out, board, todo>>
  /\ UNCHANGED <<genVars, updVars, reqVars, credVars>>
  /\ UNCHANGED stdin

\* ------------------------------------------------- the edit operations
\* (edit.py; the handle_* functions of cli.py are the same code inlined)
handlerFrame == <<impl, args, client_made, board, todo, handler>>
otherVars == <<genVars, updVars, reqVars, credVars>>

\* the three ways a step of an operation ends: it goes on at position p,
\* the operation returns v, or exception e leaves the session
Goto(p) == cpc' = p /\ hres' = hres /\ cmd_out' = cmd_out
Returns(v) == cpc' = "handler_return" /\ hres' = Some(v) /\ cmd_out' = cmd_out
Escaped(e) == cpc' = "exit" /\ hres' = hres /\ cmd_out' = Raise(e)

\* _get_board_lists, and select_list up to its first prompt
_get_board_lists ==
  /\ cpc = "get_board_lists"
  /\ \E out \in RemoteOutcomes, n \in 0..MaxItems :
       /\ rlog' = Append(rlog, Remote("get_board_lists", board[1], out))
       /\ CASE out = "KeyboardInterrupt" ->
                 Escaped(out) /\ items' = <<>> /\ menu' = None
            [] out = "TrelloAPIError" ->
                 Returns(FALSE) /\ items' = <<>> /\ menu' = None
            [] out = "ok" ->
                 /\ items' = Listing("list", n)
                 /\ IF n = 0
                      THEN Returns(FALSE) /\ menu' = Menu("list", 0, TRUE, None)
                      ELSE Goto("select_list")
                             /\ menu' = Menu("list", n, FALSE, None)
  /\ entered' = <<>>
  /\ UNCHANGED <<update_choice, cur_list, cards, selected, target, text, bi,
                 count, answer>>
  /\ UNCHANGED <<handlerFrame, otherVars>>
  /\ UNCHANGED stdin

\* select_list (_get_numeric_choice): one input of the loop that selects
\* the list of the operation
select_list ==
  /\ cpc = "select_list"
  /\ \E in \in input(MenuInputs) :
       LET c == _get_numeric_choice(in, Len(items))
       IN  /\ c.kind = "again" => ReadsOn
           /\ entered' = Append(entered, in)
           /\ CASE c.kind = "cancel" ->
                     /\ Returns(FALSE)
                     /\ menu' = Menu("list", Len(items), TRUE, None)
                     /\ cur_list' = cur_list
                [] c.kind = "item" ->
                     /\ cur_list' = Some(items[c.number])
                     /\ menu' = Menu("list", Len(items), TRUE,
                                     Some(items[c.number]))
                     /\ Goto(IF handler[1] = "add_card" THEN "card_name"
                             ELSE "get_list_cards")
                [] c.kind = "again" ->
                     Goto(cpc) /\ UNCHANGED <<menu, cur_list>>
  /\ UNCHANGED <<rlog, items, update_choice, cards, selected, target, text, bi,
                 count, answer>>
  /\ UNCHANGED <<handlerFrame, otherVars>>
  /\ stdin' \in after_input

\* _get_list_cards, and select_cards up to its first prompt
_get_list_cards ==
  /\ cpc = "get_list_cards"
  /\ \E out \in RemoteOutcomes, n \in 0..MaxItems :
       /\ rlog' = Append(rlog, Remote("get_list_cards", cur_list[1], out))
       /\ CASE out = "KeyboardInterrupt" ->
                 Escaped(out) /\ cards' = <<>> /\ menu' = None
            [] out = "TrelloAPIError" ->
                 Returns(FALSE) /\ cards' = <<>> /\ menu' = None
            [] out = "ok" ->
                 /\ cards' = Listing("card", n)
                 /\ IF n = 0
                      THEN Returns(FALSE) /\ menu' = Menu("cards", 0, TRUE, <<>>)
                      ELSE Goto("select_cards")
                             /\ menu' = Menu("cards", n, FALSE, <<>>)
  /\ entered' = <<>> /\ selected' = <<>>
  /\ UNCHANGED <<items, update_choice, cur_list, target, text, bi, count, answer>>
  /\ UNCHANGED <<handlerFrame, otherVars>>
  /\ UNCHANGED stdin

\* selected_indices of _collect_card_selections: the cards of a listing
\* have distinct ids, so these are the indices of the cards in sel
selected_indices(cs, sel) ==
  {k - 1 : k \in {j \in DOMAIN cs : \E i \in DOMAIN sel : sel[i] = cs[j]}}

\* the loop of _collect_card_selections ends on this input
selection_ends(in) == in.kind # "line" \/ strip(in.text) = <<"0">>

\* mutant: a card entered again is appended again
_collect_card_selections_again(in, cs, sel) ==
  IF int(strip(in.text)) = None THEN sel
  ELSE LET idx == int(strip(in.text))[1] - 1
       IN  IF 0 <= idx /\ idx < Len(cs) THEN Append(sel, cs[idx + 1]) ELSE sel

\* one pass of the loop of _collect_card_selections (select_cards_from_list)
\* on a line that does not end it: selected after the pass
_collect_card_selections(in, cs, sel) ==
  IF int(strip(in.text)) = None THEN sel
  ELSE LET idx == int(strip(in.text))[1] - 1
       IN  IF 0 <= idx /\ idx < Len(cs)
             THEN IF idx \in selected_indices(cs, sel) THEN sel
                  ELSE Append(sel, cs[idx + 1])
             ELSE sel

\* where an operation goes on once cards are selected
after_selection ==
  [h \in {"move_cards", "update_cards", "delete_cards"} |->
     CASE h = "move_cards" -> "select_target"
       [] h = "update_cards" -> "update_menu"
       [] h = "delete_cards" -> "confirm_delete"]

\* select_cards: one input of its loop
select_cards ==
  /\ cpc = "select_cards"
  /\ \E in \in input(MenuInputs) :
       /\ entered' = Append(entered, in)
       /\ IF selection_ends(in)
            THEN /\ selected' = selected
                 /\ menu' = Menu("cards", Len(cards), TRUE, selected)
                 /\ IF selected = <<>> THEN Returns(FALSE)
                    ELSE Goto(after_selection[handler[1]])
            ELSE /\ ReadsOn
                 /\ selected' = _collect_card_selections(in, cards, selected)
                 /\ menu' = Menu("cards", Len(cards), FALSE, selected')
                 /\ Goto(cpc)
  /\ UNCHANGED <<rlog, items, update_choice, cur_list, cards, target, text, bi,
                 count, answer>>
  /\ UNCHANGED <<handlerFrame, otherVars>>
  /\ stdin' \in after_input

\* mutant: the target list is not compared with the source list
same_list_unchecked(target_list, source_list) == FALSE

\* move_cards: if target_list["id"] == source_list["id"]
same_list(target_list, source_list) == target_list = source_list

\* move_cards: one input of the loop that selects the target list; the
\* move is refused when the target is the source list
select_target ==
  /\ cpc = "select_target"
  /\ \E in \in input(MenuInputs) :
       LET c == _get_numeric_choice(in, Len(items))
           \* the inputs of this menu so far: none at its first prompt
           read == IF menu[1].kind = "cards" THEN <<>> ELSE entered
       IN  /\ c.kind = "again" => Len(read) < MaxEntries
           /\ entered' = Append(read, in)
           /\ CASE c.kind = "cancel" ->
                     /\ Returns(FALSE)
                     /\ menu' = Menu("list", Len(items), TRUE, None)
                     /\ target' = target
                [] c.kind = "item" ->
                     /\ target' = Some(items[c.number])
                     /\ menu' = Menu("list", Len(items), TRUE,
                                     Some(items[c.number]))
                     /\ IF same_list(items[c.number], cur_list[1])
                          THEN Returns(FALSE)
                          ELSE Goto("batch")
                [] c.kind = "again" ->
                     /\ Goto(cpc)
                     /\ menu' = Menu("list", Len(items), FALSE, None)
                     /\ target' = target
  /\ bi' = 1 /\ count' = 0
  /\ UNCHANGED <<rlog, items, update_choice, cur_list, cards, selected, text,
                 answer>>
  /\ UNCHANGED <<handlerFrame, otherVars>>
  /\ stdin' \in after_input

\* update_cards: _show_update_menu and the dispatch of _execute_update
_show_update_menu ==
  /\ cpc = "update_menu"
  /\ \E in \in input(MenuInputs) :
       LET choice == IF in.kind = "line" THEN strip(in.text) ELSE <<"0">>
       IN  /\ update_choice' = Some(choice)
           /\ CASE choice = <<"1">> -> Goto("update_card_names")
                [] choice = <<"2">> -> Goto("update_card_descriptions")
                [] choice = <<"3">> -> Goto("archive_cards")
                [] OTHER -> Returns(FALSE)
  /\ entered' = <<>> /\ menu' = None
  /\ bi' = 1 /\ count' = 0
  /\ UNCHANGED <<rlog, items, cur_list, cards, selected, target, text, answer>>
  /\ UNCHANGED <<handlerFrame, otherVars>>
  /\ stdin' \in after_input

\* _update_card_descriptions: the description asked once for all cards
_update_card_descriptions ==
  /\ cpc = "update_card_descriptions"
  /\ \E in \in input(TextInputs) :
       IF in.kind # "line" \/ strip(in.text) = <<>>
         THEN Returns(FALSE) /\ text' = text
         ELSE Goto("batch") /\ text' = Some(strip(in.text))
  /\ UNCHANGED <<rlog, entered, menu, items, update_choice, cur_list, cards,
                 selected, target, bi, count, answer>>
  /\ UNCHANGED <<handlerFrame, otherVars>>
  /\ stdin' \in after_input

\* _archive_cards and _confirm_delete: the confirmation before the batch
_confirm_delete ==
  /\ cpc \in {"archive_cards", "confirm_delete"}
  /\ \E in \in input(ConfirmInputs) :
       /\ answer' = Some(in)
       /\ IF confirm_deletion(in) THEN Goto("batch") ELSE Returns(FALSE)
  /\ entered' = <<>> /\ menu' = None
  /\ bi' = 1 /\ count' = 0
  /\ UNCHANGED <<rlog, items, update_choice, cur_list, cards, selected, target,
                 text>>
  /\ UNCHANGED <<handlerFrame, otherVars>>
  /\ stdin' \in after_input

\* the remote call a batch makes for card c
batch_call(c, out) ==
  CASE handler[1] = "move_cards" ->
         Remote("move_card", [card_id |-> c, list_id |-> target[1]], out)
    [] handler[1] = "delete_cards" ->
         Remote("delete_card", [card_id |-> c], out)
    [] handler[1] = "update_cards" /\ update_choice[1] = <<"2">> ->
         Remote("update_card", [card_id |-> c, description |-> text[1]], out)
    [] handler[1] = "update_cards" /\ update_choice[1] = <<"3">> ->
         Remote("update_card", [card_id |-> c, closed |-> TRUE], out)

\* mutant: the first TrelloAPIError ends the loop
batch_goes_on_until_error(out) == out = "ok"

\* the for loops of _execute_card_moves, _update_card_descriptions,
\* _archive_cards and _execute_deletions go on after a call that returned
\* or raised TrelloAPIError
batch_goes_on(out) == out \in {"ok", "TrelloAPIError"}

\* one pass of the loop of a batch over the selected cards
_execute_batch ==
  /\ cpc = "batch"
  /\ \E out \in RemoteOutcomes :
       /\ rlog' = Append(rlog, batch_call(selected[bi], out))
       /\ count' = IF out = "ok" THEN count + 1 ELSE count
       /\ bi' = bi + 1
       /\ IF Escapes(out) THEN Escaped(out)
          ELSE IF bi < Len(selected) /\ batch_goes_on(out) THEN Goto(cpc)
          ELSE Returns(count' > 0)
  /\ entered' = <<>> /\ menu' = None
  /\ UNCHANGED <<items, update_choice, cur_list, cards, selected, target, text,
                 answer>>
  /\ UNCHANGED <<handlerFrame, otherVars>>
  /\ UNCHANGED stdin

\* _update_card_names: one pass of its loop; an EOF or interrupt, at the
\* prompt or during update_card, ends the loop
_update_card_names ==
  /\ cpc = "update_card_names"
  /\ \E in \in input(TextInputs) :
       IF in.kind # "line"
         THEN Returns(count > 0) /\ UNCHANGED <<rlog, count, bi>>
       ELSE IF strip(in.text) = <<>>
         THEN /\ UNCHANGED <<rlog, count>>
              /\ bi' = bi + 1
              /\ IF bi < Len(selected) THEN Goto(cpc) ELSE Returns(count > 0)
       ELSE \E out \in RemoteOutcomes :
              /\ rlog' = Append(rlog,
                   Remote("update_card",
                          [card_id |-> selected[bi], name |-> strip(in.text)],
                          out))
              /\ count' = IF out = "ok" THEN count + 1 ELSE count
              /\ bi' = bi + 1
              /\ IF bi < Len(selected) /\ out # "KeyboardInterrupt"
                   THEN Goto(cpc) ELSE Returns(count' > 0)
  /\ UNCHANGED <<entered, menu, items, update_choice, cur_list, cards, selected,
                 target, text, answer>>
  /\ UNCHANGED <<handlerFrame, otherVars>>
  /\ stdin' \in after_input

\* _create_card_interactive: the name of the card
card_name ==
  /\ cpc = "card_name"
  /\ \E in \in input(TextInputs) :
       IF in.kind # "line" \/ strip(in.text) = <<>>
         THEN Returns(FALSE) /\ text' = text
         ELSE Goto("card_description") /\ text' = Some(strip(in.text))
  /\ entered' = <<>> /\ menu' = None
  /\ UNCHANGED <<rlog, items, update_choice, cur_list, cards, selected, target,
                 bi, count, answer>>
  /\ UNCHANGED <<handlerFrame, otherVars>>
  /\ stdin' \in after_input

\* _create_card_interactive: the description, and client.create_card; an
\* interrupt during the call is caught with those of the prompts
_create_card_interactive ==
  /\ cpc = "card_description"
  /\ \E in \in input(TextInputs) :
       IF in.kind # "line"
         THEN Returns(FALSE) /\ rlog' = rlog
         ELSE \E out \in RemoteOutcomes :
                /\ rlog' = Append(rlog,
                     Remote("create_card",
                            [list_id |-> cur_list[1], name |-> text[1],
                             description |-> IF strip(in.text) # <<>>
                                               THEN Some(strip(in.text))
                                               ELSE None],
                            out))
                /\ Returns(out = "ok")
  /\ UNCHANGED <<entered, menu, items, update_choice, cur_list, cards, selected,
                 target, text, bi, count, answer>>
  /\ UNCHANGED <<handlerFrame, otherVars>>
  /\ stdin' \in after_input

\* ------------------------------------------------------- the command line
EditIdle ==
  /\ handler = None /\ update_choice = None
  /\ cur_list = None /\ cards = <<>> /\ selected = <<>> /\ target = None
  /\ text = None /\ bi = 0 /\ count = 0 /\ hres = None

\* the arguments of run_edit_session, as Args: a client and a board_id
SessionArgs ==
  {a \in Args : a.flags = {"edit"} /\ ~a.yes
                 /\ main_credentials(a.cred, a.cred.environ).out.kind = "return"}

\* main is entered with the parsed arguments, in the environment the
\* credential case describes; run_edit_session of edit.py with a client
InitCli ==
  /\ NoGenerator
  /\ UpdIdle
  /\ ReqIdle
  /\ cred_call = None /\ cred_out = None
  /\ \/ impl = "cli" /\ args \in Args /\ cpc = "main" /\ client_made = FALSE
     \/ /\ impl = "edit" /\ cpc = "edit_board_command" /\ client_made = TRUE
        /\ args \in SessionArgs
  /\ environ = args.cred.environ
  /\ cmd_out = None /\ rlog = <<>> /\ entered = <<>> /\ menu = None
  /\ items = <<>> /\ board = None /\ answer = None /\ todo = 0
  /\ EditIdle
  /\ stdin = "open"

NextCli ==
  \/ main
  \/ verify_credentials_only
  \/ create_verify
  \/ create_career_board
  \/ create_rest
  \/ delete_board_command
  \/ select_board_for_deletion
  \/ delete_get_board
  \/ confirm_board_deletion
  \/ delete_board
  \/ edit_board_command
  \/ edit_get_board
  \/ select_board_for_editing
  \/ show_edit_menu
  \/ handler_returns
  \/ _get_board_lists
  \/ select_list
  \/ _get_list_cards
  \/ select_cards
  \/ select_target
  \/ _show_update_menu
  \/ _update_card_descriptions
  \/ _confirm_delete
  \/ _execute_batch
  \/ _update_card_names
  \/ card_name
  \/ _create_card_interactive

SpecCli == InitCli /\ [][NextCli]_vars

\* ------------------------------------------------------- the edit session
\* edit_board_command of cli.py or run_edit_session of edit.py is called
\* with a client and a board_id
InitSession ==
  /\ NoGenerator
  /\ UpdIdle
  /\ ReqIdle
  /\ cred_call = None /\ cred_out = None
  /\ impl \in {"cli", "edit"}
  /\ args \in SessionArgs
  /\ cpc = "edit_board_command" /\ client_made = TRUE
  /\ environ = args.cred.environ
  /\ cmd_out = None /\ rlog = <<>> /\ entered = <<>> /\ menu = None
  /\ items = <<>> /\ board = None /\ answer = None /\ todo = 0
  /\ EditIdle
  /\ stdin = "open"

NextSession ==
  \/ edit_board_command
  \/ edit_get_board
  \/ select_board_for_editing
  \/ show_edit_menu
  \/ handler_returns
  \/ _get_board_lists
  \/ select_list
  \/ _get_list_cards
  \/ select_cards
  \/ select_target
  \/ _show_update_menu
  \/ _update_card_descriptions
  \/ _confirm_delete
  \/ _execute_batch
  \/ _update_card_names
  \/ card_name
  \/ _create_card_interactive

\* the session takes its next step: a remote call ends, by its timeout at
\* the latest, and input() returns what the user enters, or raises EOFError
\* at once when the input stream has ended
SessionProgress == WF_vars(NextSession)

SpecSession == InitSession /\ [][NextSession]_vars /\ SessionProgress

\* ------------------------------------------------------- the call log
Range(f) == {f[i] : i \in DOMAIN f}

\* the calls of one operation, in the order issued
CallsOf(op) == SelectSeq(calls, LAMBDA c : c.op = op)
OkCount(op) == Len(SelectSeq(calls, LAMBDA c : c.op = op /\ c.ok))
FailCount(op) == Len(SelectSeq(calls, LAMBDA c : c.op = op /\ ~c.ok))

\* positions in the log of the calls issued for a template position
CallsFor(op, i, j) ==
  {n \in 1..Len(calls) : calls[n].op = op /\ calls[n].idx = <<i, j>>}

Returned == pc = "done"

\* <<operation, template position>> of the calls issued, in order
IssuedOps ==
  [n \in 1..Len(calls) |-> <<calls[n].op, calls[n].idx[1], calls[n].idx[2]>>]

RECURSIVE ListOps(_, _)
ListOps(lists, k) ==
  IF k > Len(lists) THEN <<>>
  ELSE <<<<"list", k, 0>>>>
       \o [j \in 1..Len(lists[k]) |-> <<"card", k, j>>]
       \o ListOps(lists, k + 1)

\* board, then the labels in template order, then each list followed by its cards
ExpectedOps(t) ==
  <<<<"board", 0, 0>>>>
  \o [i \in 1..Len(t.labels) |-> <<"label", i, 0>>]
  \o ListOps(t.lists, 1)

IsPrefix(s, t) == Len(s) <= Len(t) /\ \A n \in 1..Len(s) : s[n] = t[n]

AllSucceeded == \A n \in 1..Len(calls) : calls[n].ok

\* C1: when every remote call succeeds, generate issues 1 board-create, then
\* the N label-creates in template order, then for each list in template
\* order its list-create followed by its card-creates in template order:
\* the calls issued so far are a prefix of that sequence, and all of it once
\* generate has returned.
C1_CallOrder ==
  AllSucceeded =>
    /\ IsPrefix(IssuedOps, ExpectedOps(template))
    /\ Returned =>
         /\ IssuedOps = ExpectedOps(template)
         /\ Len(CallsOf("board")) = 1
         /\ Len(CallsOf("label")) = Len(template.labels)
         /\ Len(CallsOf("list")) = Len(template.lists)
         /\ Len(CallsOf("card")) = total_cards(template.lists)

C1_Witness ==
  /\ Returned /\ AllSucceeded
  /\ Len(template.labels) = 2
  /\ Len(template.lists) = 2
  /\ \A k \in 1..2 : Len(template.lists[k]) = 1
  /\ Len(calls) = 7

\* C2: if the list-create of a template list fails, no card-create is issued
\* for a card of that list, and once generate has returned every template
\* list has had its list-create issued, each created list with all its cards
\* attempted.
C2_FailedListSkipsCards ==
  /\ \A n \in 1..Len(calls) :
       (calls[n].op = "list" /\ ~calls[n].ok) =>
         \A m \in 1..Len(calls) :
           calls[m].op = "card" => calls[m].idx[1] # calls[n].idx[1]
  /\ (Returned /\ FailCount("list") > 0) =>
       \A k \in 1..Len(template.lists) :
         /\ CallsFor("list", k, 0) # {}
         /\ (\E n \in CallsFor("list", k, 0) : calls[n].ok) =>
              \A j \in 1..Len(template.lists[k]) : CallsFor("card", k, j) # {}

C2_Witness ==
  /\ Returned
  /\ Len(template.lists) = 2
  /\ \A k \in 1..2 : Len(template.lists[k]) = 1
  /\ \E n \in CallsFor("list", 1, 0) : ~calls[n].ok
  /\ \E n \in CallsFor("list", 2, 0) : calls[n].ok
  /\ CallsFor("card", 2, 1) # {}
  /\ CallsFor("card", 1, 1) = {}

\* C3: whichever label-creates fail, a label-create is issued for each of the
\* N template labels, and the final labels_created is N minus the number of
\* failed label-creates.
C3_LabelsAllAttempted ==
  (pc \in {"lists", "cards", "done"}) =>
    /\ \A i \in 1..Len(template.labels) : Cardinality(CallsFor("label", i, 0)) = 1
    /\ Len(CallsOf("label")) = Len(template.labels)
    /\ progress.labels_created = Len(template.labels) - FailCount("label")
    /\ Returned => result[1].labels_created
                     = Len(template.labels) - FailCount("label")

C3_Witness ==
  /\ Returned
  /\ Len(template.labels) = 2
  /\ \E n \in CallsFor("label", 1, 0) : ~calls[n].ok
  /\ \E n \in CallsFor("label", 2, 0) : calls[n].ok
  /\ result[1].labels_created = 1

\* positions of the label-creates that succeeded before call n for a label
\* of the given name
OkLabelsBefore(name, n) ==
  {m \in 1..(n - 1) : /\ calls[m].op = "label" /\ calls[m].ok
                      /\ template.labels[calls[m].idx[1]] = name}

Max(S) == CHOOSE x \in S : \A y \in S : y <= x

\* the ids a card-create at position n of the log is to receive: for each
\* label name of the card, in the card's order, that a succeeded label-create
\* of this run carries, the id that create returned (the latest, if the
\* template names the label twice)
ExpectedLabelIds(n) ==
  LET cl == template.lists[calls[n].idx[1]][calls[n].idx[2]]
      present == SelectSeq(cl, LAMBDA nm : OkLabelsBefore(nm, n) # {})
  IN  [i \in 1..Len(present) |-> calls[Max(OkLabelsBefore(present[i], n))].ret]

\* C4: each card-create receives exactly the ids of the card's label names
\* whose label-create succeeded in this run, in the card's label order; a
\* name with no created label is dropped and records no error (the error log
\* has one entry per failed card-create and no other card entry); a card with
\* no resolved id is created with labels=None, not skipped.
C4_CardLabelIds ==
  /\ \A n \in 1..Len(calls) :
       calls[n].op = "card" =>
         calls[n].labels = IF ExpectedLabelIds(n) = <<>> THEN None
                           ELSE Some(ExpectedLabelIds(n))
  /\ pc # "raised" =>
       Len(SelectSeq(progress.errors, LAMBDA e : e[1] = "card")) = FailCount("card")
  /\ Returned =>
       \A k \in 1..Len(template.lists) :
         (\E n \in CallsFor("list", k, 0) : calls[n].ok) =>
           \A j \in 1..Len(template.lists[k]) : CallsFor("card", k, j) # {}

C4_Witness ==
  /\ Returned
  /\ template.labels = <<"P", "Q">>
  /\ \E n, m \in 1..Len(calls) :
       /\ calls[n].op = "card" /\ calls[n].ok
       /\ template.lists[calls[n].idx[1]][calls[n].idx[2]] = <<"Q", "P">>
       /\ calls[n].labels # None /\ Len(calls[n].labels[1]) = 1
       /\ calls[m].op = "card" /\ calls[m].ok
       /\ template.lists[calls[m].idx[1]][calls[m].idx[2]] = <<"Q">>
       /\ calls[m].labels = None
  /\ FailCount("card") = 0 /\ FailCount("list") = 0
  /\ progress.errors = <<<<"label", 2, 0>>>>

\* C5: generate raises only if board creation fails: no failure of a label-,
\* list- or card-create leaves generate, a failed board-create does, with no
\* other call issued, and a run whose board-create succeeded returns a
\* GeneratedBoard whatever failed after it.
C5_RaisesOnlyOnBoardFailure ==
  /\ pc = "raised" =>
       /\ Len(calls) = 1 /\ calls[1].op = "board" /\ ~calls[1].ok
       /\ result = None
  /\ (Len(calls) >= 1 /\ ~calls[1].ok) => pc = "raised"
  /\ (Returned <=> result # None)
  /\ (Len(calls) >= 1 /\ calls[1].ok) => pc \in {"labels", "lists", "cards", "done"}

C5_Witness ==
  /\ pc = "raised"
  /\ Len(template.labels) > 0 /\ total_cards(template.lists) > 0
  /\ Len(calls) = 1

\* C6: a failed card-create stops neither the remaining cards of its list nor
\* the later lists, and the returned lists_created, cards_created and
\* labels_created are the numbers of list-, card- and label-creates that
\* succeeded in this run.
C6_CountsAreSuccesses ==
  /\ \A n \in 1..Len(calls) :
       (calls[n].op = "card" /\ ~calls[n].ok /\ (Returned \/ n < Len(calls))) =>
         LET k == calls[n].idx[1]
             j == calls[n].idx[2]
         IN  IF j < Len(template.lists[k])
               THEN n < Len(calls) /\ calls[n + 1].op = "card"
                    /\ calls[n + 1].idx = <<k, j + 1>>
               ELSE IF k < Len(template.lists)
                 THEN n < Len(calls) /\ calls[n + 1].op = "list"
                      /\ calls[n + 1].idx = <<k + 1, 0>>
                 ELSE n = Len(calls)
  /\ Returned =>
       /\ result[1].lists_created = OkCount("list")
       /\ result[1].cards_created = OkCount("card")
       /\ result[1].labels_created = OkCount("label")

C6_Witness ==
  /\ Returned
  /\ Len(template.lists) = 2 /\ Len(template.lists[1]) = 2
  /\ \E n \in CallsFor("card", 1, 1) : ~calls[n].ok
  /\ \E n \in CallsFor("card", 1, 2) : calls[n].ok
  /\ \E n \in CallsFor("list", 2, 0) : calls[n].ok
  /\ result[1].cards_created = 1 /\ result[1].lists_created = 2

\* <<operation, template position>> of the calls that failed, in order
FailedOps ==
  LET failed == SelectSeq(calls, LAMBDA c : ~c.ok)
  IN  [n \in 1..Len(failed) |-> <<failed[n].op, failed[n].idx[1], failed[n].idx[2]>>]

\* C7: after the board has been created, and so when generate returns,
\* progress.errors holds one entry per failed label-, list- or card-create of
\* this run, in the order of the failures (none when nothing failed), and no
\* template label, list or card is attempted twice.
C7_ErrorsAreFailures ==
  /\ pc \in {"labels", "lists", "cards", "done"} => progress.errors = FailedOps
  /\ \A n, m \in 1..Len(calls) : n # m => IssuedOps[n] # IssuedOps[m]

C7_Witness ==
  /\ Returned
  /\ Len(progress.errors) = 3
  /\ progress.errors[1][1] = "label"
  /\ progress.errors[2][1] = "list"
  /\ progress.errors[3][1] = "card"

\* number of calls of an operation that succeeded among the first n calls
OkCountUpTo(op, n) ==
  Cardinality({m \in 1..n : calls[m].op = op /\ calls[m].ok})

CallbackKinds(kind) ==
  Len(SelectSeq(cbLog, LAMBDA e : e.progress.current_step[1] = kind))

\* C8 as stated: the callback is invoked only after a milestone (board
\* created, a label, list or card created, completion), never before the
\* board-create call has returned, and sees counts that include the
\* milestone.
C8_Original ==
  hasCallback =>
    \A i \in 1..Len(cbLog) :
      LET e == cbLog[i] IN
      /\ e.after >= 1 /\ calls[1].op = "board" /\ calls[1].ok
      /\ e.progress.current_step[1] \in
           {"Creating labels...", "Created label", "Created list",
            "Created card", "Board generation complete!"}
      /\ e.progress.labels_created = OkCountUpTo("label", e.after)
      /\ e.progress.lists_created = OkCountUpTo("list", e.after)
      /\ e.progress.cards_created = OkCountUpTo("card", e.after)

\* C8, amended: the callback is invoked once when generate starts, before
\* the board-create call is issued ("Creating board..."); every later
\* invocation follows the successful board-create: one after the board is
\* created, one after each label, list and card created (right after the
\* call that created it, and none for a failed call), one between the labels
\* and the lists ("Creating lists and cards...") and one at completion; each
\* invocation sees counts that include every create that succeeded before it.
C8_CallbackMilestones ==
  hasCallback =>
    /\ \A i \in 1..Len(cbLog) :
         LET e == cbLog[i]
             step == e.progress.current_step
         IN
         /\ e.after <= Len(calls)
         /\ (i = 1) <=> (e.after = 0)
         /\ (i = 1) <=> (step[1] = "Creating board...")
         /\ i > 1 => /\ calls[1].op = "board" /\ calls[1].ok
                     /\ cbLog[i - 1].after <= e.after
         /\ step[1] \in {"Creating board...", "Creating labels...",
                         "Created label", "Creating lists and cards...",
                         "Created list", "Created card",
                         "Board generation complete!"}
         /\ step[1] = "Creating labels..." => e.after = 1
         /\ step[1] = "Created label" =>
              /\ calls[e.after].op = "label" /\ calls[e.after].ok
              /\ calls[e.after].idx = <<step[2], step[3]>>
         /\ step[1] = "Created list" =>
              /\ calls[e.after].op = "list" /\ calls[e.after].ok
              /\ calls[e.after].idx = <<step[2], step[3]>>
         /\ step[1] = "Created card" =>
              /\ calls[e.after].op = "card" /\ calls[e.after].ok
              /\ calls[e.after].idx = <<step[2], step[3]>>
         /\ e.progress.labels_created = OkCountUpTo("label", e.after)
         /\ e.progress.lists_created = OkCountUpTo("list", e.after)
         /\ e.progress.cards_created = OkCountUpTo("card", e.after)
    /\ pc # "idle" => CallbackKinds("Creating board...") = 1
    /\ CallbackKinds("Creating labels...") = OkCount("board")
    /\ CallbackKinds("Created label") = OkCount("label")
    /\ CallbackKinds("Created list") = OkCount("list")
    /\ CallbackKinds("Created card") = OkCount("card")
    /\ CallbackKinds("Creating lists and cards...")
         = (IF pc \in {"lists", "cards", "done"} THEN 1 ELSE 0)
    /\ CallbackKinds("Board generation complete!") = (IF Returned THEN 1 ELSE 0)

C8_Witness ==
  /\ hasCallback /\ Returned
  /\ OkCount("label") = 1 /\ FailCount("label") = 1
  /\ OkCount("list") = 1 /\ FailCount("list") = 1
  /\ OkCount("card") = 1 /\ FailCount("card") = 1
  /\ Len(cbLog) = 7

\* C9: create before reference: each label- and list-create is given the id
\* this run's board-create returned; each card-create is given the id
\* returned by the list-create that succeeded earlier in this run for the
\* card's own list; every label id attached to a card was returned by a
\* label-create that succeeded earlier in this run.
C9_CreateBeforeReference ==
  \A n \in 1..Len(calls) :
    /\ calls[n].op \in {"label", "list"} =>
         /\ n > 1 /\ calls[1].op = "board" /\ calls[1].ok
         /\ calls[n].parent = calls[1].ret
    /\ calls[n].op = "card" =>
         /\ \E m \in 1..(n - 1) :
              /\ calls[m].op = "list" /\ calls[m].ok
              /\ calls[m].idx[1] = calls[n].idx[1]
              /\ calls[n].parent = calls[m].ret
         /\ calls[n].labels # None =>
              \A x \in Range(calls[n].labels[1]) :
                \E m \in 1..(n - 1) :
                  calls[m].op = "label" /\ calls[m].ok /\ calls[m].ret = x

C9_Witness ==
  /\ run = 2 /\ Returned
  /\ \E n \in 1..Len(calls) :
       /\ calls[n].op = "card" /\ calls[n].idx[1] = 2
       /\ calls[n].labels # None /\ Len(calls[n].labels[1]) = 2
  /\ \E n \in CallsFor("list", 1, 0) : ~calls[n].ok
  /\ Len(template.lists[1]) > 0

\* C10: update_card sends the parameter of a field if and only if the field's
\* argument is not None; an explicit clear is sent: labels=[] sends idLabels
\* as the empty string, due_date="" sends due as the string "null"; every
\* other value is sent as given (closed in lower case, labels joined by ",").
C10_UpdateCardParams ==
  upd_sent # None =>
    LET a == upd_args[1]
        q == upd_sent[1].params
    IN
    /\ ("name" \in DOMAIN q) <=> (a.name # None)
    /\ ("desc" \in DOMAIN q) <=> (a.description # None)
    /\ ("closed" \in DOMAIN q) <=> (a.closed # None)
    /\ ("due" \in DOMAIN q) <=> (a.due_date # None)
    /\ ("idLabels" \in DOMAIN q) <=> (a.labels # None)
    /\ DOMAIN q \subseteq {"key", "token", "name", "desc", "closed", "due", "idLabels"}
    /\ a.labels = Some(<<>>) => q.idLabels = <<>>
    /\ a.due_date = Some(<<>>) => q.due = <<"n", "u", "l", "l">>
    /\ a.name # None => q.name = a.name[1]
    /\ a.description # None => q.desc = a.description[1]
    /\ (a.due_date # None /\ a.due_date # Some(<<>>)) => q.due = a.due_date[1]
    /\ a.labels = Some(<<<<"a">>, <<"b">>>>) => q.idLabels = <<"a", ",", "b">>
    /\ q.key = api_key /\ q.token = token

C10_Witness ==
  /\ upd_sent # None
  /\ upd_args[1].labels = Some(<<>>)
  /\ upd_args[1].due_date = Some(<<>>)
  /\ upd_args[1].name = None
  /\ upd_args[1].description = Some(<<>>)
  /\ upd_args[1].closed = None
  /\ DOMAIN upd_sent[1].params = {"key", "token", "desc", "due", "idLabels"}

\* ---------------------------------------------------------------- C11
\* the last operation met a response with this property of its status
MetStatus(P(_)) ==
  /\ req_call # None
  /\ req_call[1].response.kind = "response"
  /\ P(req_call[1].response.status)

MetTransportFailure ==
  /\ req_call # None
  /\ req_call[1].response.kind = "exception"

\* the error an HTTP error response must produce: the status code, and the
\* parsed JSON body or else the raw text as the message
CarriesStatusAndBody ==
  LET r == req_call[1].response
      o == req_out[1]
  IN  /\ o.kind = "TrelloAPIError"
      /\ o.status_code = Some(r.status)
      /\ o.message[1] = "Trello API error: "
      /\ o.message[2] = IF r.body.json # None THEN r.body.json[1] ELSE r.body.text

CarriesRequestFailed ==
  LET o == req_out[1]
  IN  /\ o.kind = "TrelloAPIError"
      /\ o.status_code = None
      /\ o.message[1] = "Request failed: "

Non2xx(s) == s < 200 \/ s > 299
Is4xx5xx(s) == 400 <= s /\ s <= 599

LoadCalled == cred_call # None /\ cred_call[1].fn = "load_credentials"

\* the env_file argument names a file that does not exist
EnvFileMissing ==
  LET a == cred_call[1].args
  IN  a.env_file # None /\ a.env_file[1] # "" /\ ~a.exists

\* the source that wins: a non-empty explicit argument, else the process
\* environment variable when set, else the value of the .env file
Priority(arg, env, file) ==
  IF arg # None /\ arg[1] # <<>> THEN arg
  ELSE IF env # None THEN env
  ELSE file

ValidateCalled == cred_call # None /\ cred_call[1].fn = "validate_credentials"

\* C13: validate_credentials raises CredentialError naming the API key
\* when the key is shorter than 16 characters, else raises CredentialError
\* naming the token when the token is shorter than 32 characters, else
\* returns True.
C13_ValidateLengths ==
  ValidateCalled =>
    LET c == cred_call[1].args
        o == cred_out[1]
    IN  /\ Len(c.api_key) < 16 =>
             o = CredentialError("API key appears too short")
        /\ Len(c.api_key) >= 16 /\ Len(c.token) < 32 =>
             o = CredentialError("Token appears too short")
        /\ Len(c.api_key) >= 16 /\ Len(c.token) >= 32 =>
             o = [kind |-> "return", value |-> TRUE]

\* a key of 15 characters was rejected although the token was too short too
C13_Witness ==
  /\ ValidateCalled
  /\ Len(cred_call[1].args.api_key) = 15
  /\ Len(cred_call[1].args.token) = 31
  /\ cred_out[1] = CredentialError("API key appears too short")

\* ---------------------------------------------------------------- C14
\* load_credentials or validate_credentials raised CredentialError in main
CredentialsFailed ==
  /\ cred_call # None /\ cred_call[1].fn = "main"
  /\ cred_out[1].kind = "CredentialError"

\* C14: whenever load_credentials or validate_credentials raises
\* CredentialError in main, main returns 1, no TrelloClient is constructed
\* and no remote request is issued, whatever the mode.
C14_CredentialErrorExits ==
  CredentialsFailed =>
    /\ cpc = "exit" /\ cmd_out = Return(1)
    /\ ~client_made
    /\ rlog = <<>>

\* validate_credentials rejected the token in delete mode
C14_Witness ==
  /\ CredentialsFailed
  /\ cred_out[1].message = "Token appears too short"
  /\ "delete" \in args.flags
  /\ cmd_out = Return(1)

\* ---------------------------------------------------------------- C15
\* main ran its default creation flow: no mode flag, credentials accepted
CreationFlow == impl = "cli" /\ args.flags = {} /\ client_made

LastCall == rlog[Len(rlog)]

\* C15: the creation flow of main returns 0 when create_career_board
\* returned, 1 when verification or the board creation raised
\* TrelloAPIError, 130 on a keyboard interrupt during either; it returns no
\* other code and no exception leaves main.
C15_CreationExitCodes ==
  CreationFlow /\ cpc = "exit" =>
    /\ cmd_out # None /\ cmd_out[1].kind = "return"
    /\ cmd_out[1].value \in {0, 1, 130}
    /\ cmd_out[1].value = 130 <=> LastCall.out = "KeyboardInterrupt"
    /\ cmd_out[1].value = 1 <=>
         /\ LastCall.out = "TrelloAPIError"
         /\ LastCall.op \in {"verify_credentials", "create_board"}
    /\ cmd_out[1].value = 0 <=>
         /\ Remote("create_board", None, "ok") \in Range(rlog)
         /\ LastCall.out # "KeyboardInterrupt"

\* the creation was interrupted after the board had been created
C15_Witness ==
  /\ CreationFlow /\ cpc = "exit"
  /\ Remote("create_board", None, "ok") \in Range(rlog)
  /\ LastCall.out = "KeyboardInterrupt"
  /\ cmd_out = Return(130)

\* ---------------------------------------------------------------- C16
\* the command ended and its last remote call, the lookup of the board
\* (get_board of the id given, list_boards for the selection), raised
\* TrelloAPIError
BoardLookupFailed ==
  /\ cpc = "exit" /\ rlog # <<>>
  /\ LastCall.op \in {"get_board", "list_boards"}
  /\ LastCall.out = "TrelloAPIError"

\* C16 as stated: in delete mode and in edit mode, a TrelloAPIError raised
\* while the board is looked up makes the command return 1.
C16_Original == BoardLookupFailed => cmd_out = Return(1)

\* ---------------------------------------------------------------- C17
\* the lines that are "yes" or "y" once trimmed and lower-cased
AffirmativeLines ==
  {<<"y", "e", "s">>, <<"y">>, <<" ", "Y", "E", "S", " ">>, <<"Y">>}

Affirmed ==
  /\ answer # None /\ answer[1].kind = "line"
  /\ answer[1].text \in AffirmativeLines

Called(op) == \E i \in DOMAIN rlog : rlog[i].op = op

\* C17: delete_board is called only if --yes was given or the confirmation
\* was answered "yes" or "y" (any case, surrounding blanks ignored), and
\* delete_card only after such an answer; any other answer, an empty
\* answer, end of input or an interrupt leaves the command without a
\* delete call.
C17_NoDeleteWithoutConfirmation ==
  /\ Called("delete_board") => args.yes \/ Affirmed
  /\ Called("delete_card") => Affirmed

\* cards were deleted after the answer " YES "
C17_Witness ==
  /\ Called("delete_card")
  /\ answer = Some(Line(<<" ", "Y", "E", "S", " ">>))

\* ---------------------------------------------------------------- C18
BatchOps == {"move_card", "update_card", "delete_card"}

\* a batch over the selected cards ran and the operation returned
BatchDone ==
  /\ cpc = "handler_return" /\ handler # None
  /\ handler[1] \in {"move_cards", "update_cards", "delete_cards"}
  /\ handler[1] = "update_cards" => update_choice \in {Some(<<"2">>), Some(<<"3">>)}
  /\ bi > 1

BatchCalls == SelectSeq(rlog, LAMBDA c : c.op \in BatchOps)

\* C18: a batch (move, set description, archive, delete) makes exactly one
\* remote call per selected card, in selection order, whether or not
\* earlier calls raised TrelloAPIError; its count is the number of calls
\* that succeeded, and the operation returns True iff that count is
\* positive.
C18_BatchPerCard ==
  BatchDone =>
    /\ Len(BatchCalls) = Len(selected)
    /\ \A i \in DOMAIN BatchCalls :
         /\ BatchCalls[i].arg.card_id = selected[i]
         /\ BatchCalls[i].op =
              CASE handler[1] = "move_cards" -> "move_card"
                [] handler[1] = "update_cards" -> "update_card"
                [] handler[1] = "delete_cards" -> "delete_card"
    /\ count = Cardinality({i \in DOMAIN BatchCalls : BatchCalls[i].out = "ok"})
    /\ hres = Some(count > 0)

\* a move of two cards went on after the first call failed
C18_Witness ==
  /\ BatchDone /\ handler[1] = "move_cards"
  /\ Len(selected) = 2
  /\ BatchCalls[1].out = "TrelloAPIError"
  /\ BatchCalls[2].out = "ok"
  /\ count = 1 /\ hres = Some(TRUE)

\* ---------------------------------------------------------------- C19
\* the number an input enters at a numbered menu; 0 when it enters none
Typed(in) ==
  IF in.kind # "line" THEN 0
  ELSE CASE in.text = <<"1">> -> 1
         [] in.text = <<"2">> -> 2
         [] in.text = <<" ", "2", " ">> -> 2
         [] in.text = <<"3">> -> 3
         [] in.text = <<"4">> -> 4
         [] OTHER -> 0

\* the input ends a menu: "0", end of input or an interrupt
Terminates(in) == in.kind # "line" \/ in.text = <<"0">>

\* the inputs read before the one that ended the menu
Before ==
  IF entered # <<>> /\ Terminates(entered[Len(entered)])
    THEN SubSeq(entered, 1, Len(entered) - 1) ELSE entered

\* the position of the first input that entered number k
FirstEntry(k) == CHOOSE i \in DOMAIN Before :
                   Typed(Before[i]) = k /\ \A j \in 1..(i - 1) : Typed(Before[j]) # k

\* C19: while and after cards are selected, the selection holds no card
\* twice and holds exactly the cards whose 1-based number was entered
\* before the terminating "0", end of input or interrupt, in the order of
\* their first entry; the selection returns once such an input is read.
C19_CardSelection ==
  menu # None /\ menu[1].kind = "cards" =>
    LET n == Len(cards)
        nums == {Typed(Before[i]) : i \in DOMAIN Before} \cap (1..n)
    IN  /\ \A i, j \in DOMAIN selected : i # j => selected[i] # selected[j]
        /\ Range(selected) = {cards[k] : k \in nums}
        /\ \A i, j \in DOMAIN selected :
             i < j => \E k, l \in nums :
                        /\ selected[i] = cards[k] /\ selected[j] = cards[l]
                        /\ FirstEntry(k) < FirstEntry(l)
        /\ \A i \in DOMAIN Before : ~Terminates(Before[i])
        /\ n > 0 =>
             (menu[1].done <=> entered # <<>> /\ Terminates(entered[Len(entered)]))
        /\ menu[1].result = selected

\* card 2 was entered twice, then "0": it was selected once
C19_Witness ==
  /\ menu # None /\ menu[1].kind = "cards" /\ menu[1].done
  /\ entered = <<Line(<<"2">>), Line(<<" ", "2", " ">>), Line(<<"0">>)>>
  /\ selected = <<Id("card", 2)>>

\* ---------------------------------------------------------------- C20
\* C20: a board or list menu over no item returns None without a prompt;
\* over n items it returns on the first input that is "0", end of input or
\* an interrupt, with None, or a number from 1 to n, with that item, and
\* asks again on any other input.
C20_SingleSelection ==
  menu # None /\ menu[1].kind \in {"board", "list"} =>
    LET m == menu[1]
        last == entered[Len(entered)]
    IN  /\ m.n = Len(items)
        /\ m.n = 0 => entered = <<>> /\ m.done /\ m.result = None
        /\ \A i \in 1..(Len(entered) - (IF m.done THEN 1 ELSE 0)) :
             ~Terminates(entered[i]) /\ Typed(entered[i]) \notin 1..m.n
        /\ m.n > 0 =>
             /\ m.done <=>
                  entered # <<>> /\ (Terminates(last) \/ Typed(last) \in 1..m.n)
             /\ m.done /\ Terminates(last) => m.result = None
             /\ m.done /\ ~Terminates(last) =>
                  m.result = Some(Id(m.kind, Typed(last)))
             /\ ~m.done => m.result = None

\* list 2 was picked at the second input, after an invalid one
C20_Witness ==
  /\ menu # None /\ menu[1].kind = "list" /\ menu[1].done
  /\ entered = <<Line(<<"-", "1">>), Line(<<" ", "2", " ">>)>>
  /\ menu[1].result = Some(Id("list", 2))

\* ---------------------------------------------------------------- C21
\* the operation of the menu number k
HandlerOf(k) == <<"add_card", "move_cards", "update_cards", "delete_cards">>[k]

\* the state after a pass of the menu loop of the edit session
MenuPass ==
  menu # None /\ menu[1].kind = "edit" =>
    LET in == entered[1]
    IN  /\ Terminates(in) =>
              cpc = "exit" /\ cmd_out = Return(0) /\ handler = None
        /\ Typed(in) \in 1..4 =>
              /\ handler = Some(HandlerOf(Typed(in)))
              /\ cpc = "get_board_lists" /\ cmd_out = None
              /\ board # None /\ rlog = <<>>
        /\ ~Terminates(in) /\ Typed(in) \notin 1..4 =>
              cpc = "show_edit_menu" /\ cmd_out = None /\ handler = None

\* an operation asks for the lists of the resolved board, once
OneInvocation ==
  LET asked == SelectSeq(rlog, LAMBDA c : c.op = "get_board_lists")
  IN  handler # None =>
        /\ board # None
        /\ Len(asked) <= 1
        /\ \A i \in DOMAIN asked : asked[i].arg = board[1]

\* an exception leaves the session only from a remote call
NoPromptException ==
  cmd_out # None /\ cmd_out[1].kind = "raise" =>
    /\ rlog # <<>>
    /\ LastCall.out = "KeyboardInterrupt"
    /\ cmd_out[1].exc = "KeyboardInterrupt"

\* an operation starts at the menu only, and ends by returning to it
HandlerSteps ==
  handler' # handler =>
    \/ cpc = "show_edit_menu" /\ handler = None /\ cpc' = "get_board_lists"
    \/ cpc = "handler_return" /\ handler' = None /\ cpc' = "show_edit_menu"

\* C21: the menu loop of the edit session starts the add, move, update or
\* delete operation on choice "1" to "4", one invocation per choice and on
\* the resolved board, asks again on any other choice, and returns 0 on
\* "0", end of input or an interrupt; no end of input or interrupt at a
\* prompt of the session leaves it as an exception; and once the input
\* stream has ended the session eventually exits.
C21_EditSessionLoop ==
  /\ [](MenuPass /\ OneInvocation /\ NoPromptException)
  /\ [][HandlerSteps]_vars
  /\ (stdin = "ended" ~> cpc = "exit")

\* the input ended at the confirmation of delete_cards, and the session
\* returned 0 at the menu that followed
C21_Witness ==
  /\ stdin = "ended" /\ cpc = "exit" /\ cmd_out = Return(0)
  /\ menu = Menu("edit", 4, TRUE, None) /\ entered = <<EOFError>>

\* ---------------------------------------------------------------- C22
\* C22: once main has run with --dry-run or --setup-help it has returned 0,
\* no credentials were loaded (no call of load_credentials, os.environ as
\* it was, no client), and no remote call was made, whatever the other
\* flags and credential arguments are.
C22_DryRunIsLocal ==
  impl = "cli" /\ cpc # "main"
    /\ ("dry_run" \in args.flags \/ "setup_help" \in args.flags) =>
      /\ cpc = "exit" /\ cmd_out = Return(0)
      /\ cred_call = None /\ cred_out = None
      /\ environ = args.cred.environ
      /\ ~client_made
      /\ rlog = <<>>

\* --dry-run with --delete, --edit, --verify-only and --yes, and no
\* credentials anywhere
C22_Witness ==
  /\ impl = "cli" /\ cpc = "exit" /\ cmd_out = Return(0)
  /\ args.flags = {"dry_run", "delete", "edit", "verify_only"} /\ args.yes
  /\ args.cred.api_key = None /\ args.cred.environ = NoEnv
  /\ rlog = <<>> /\ cred_call = None

\* ---------------------------------------------------------------- C23
\* C23: every label name a card of the shipped template refers to is the
\* name of a label the template defines; so in a run on it in which every
\* label-create call succeeded, every card-create call is given one label
\* id for each label of its card.
C23_ShippedLabelsDefined ==
  /\ \A k \in DOMAIN template.lists : \A j \in DOMAIN template.lists[k] :
       \A i \in DOMAIN template.lists[k][j] :
         template.lists[k][j][i] \in Range(template.labels)
  /\ OkCount("label") = Len(template.labels) =>
       \A n \in DOMAIN calls :
         calls[n].op = "card" =>
           LET card == template.lists[calls[n].idx[1]][calls[n].idx[2]]
           IN  /\ card # <<>> => calls[n].labels # None
               /\ calls[n].labels # None => Len(calls[n].labels[1]) = Len(card)

\* a run on the shipped template created its 6 labels, 7 lists and 28
\* cards, "Certifications to Pursue" with its two label ids
C23_Witness ==
  /\ Returned /\ template = get_tech_career_template
  /\ OkCount("label") = 6 /\ OkCount("list") = 7 /\ OkCount("card") = 28
  /\ \E n \in DOMAIN calls :
       /\ calls[n].op = "card" /\ calls[n].idx = <<3, 2>>
       /\ calls[n].labels # None /\ Len(calls[n].labels[1]) = 2

\* ---------------------------------------------------------------- C24
\* the calls of operation op the current edit operation has made
CallsTo(op) == SelectSeq(rlog, LAMBDA c : c.op = op)

\* a call of op for arg returned before the n-th call of the operation
ReturnedBefore(op, arg, n) ==
  \E i \in 1..(n - 1) : rlog[i].op = op /\ rlog[i].arg = arg /\ rlog[i].out = "ok"

\* C24: in move-cards, once a target list with the id of the source list
\* is selected the operation returns False and has made no move_card call;
\* and every move_card call is made by move-cards, targets a list of the
\* lists fetched for the board, other than the source list, and moves a
\* card that is among the cards fetched from the source list.
C24_MoveTargets ==
  /\ handler = Some("move_cards") /\ target # None /\ target = cur_list =>
       cpc = "handler_return" /\ hres = Some(FALSE) /\ CallsTo("move_card") = <<>>
  /\ \A n \in DOMAIN rlog :
       rlog[n].op = "move_card" =>
         /\ handler = Some("move_cards")
         /\ rlog[n].arg.list_id \in Range(items)
         /\ rlog[n].arg.list_id = target[1]
         /\ rlog[n].arg.list_id # cur_list[1]
         /\ rlog[n].arg.card_id \in Range(cards)
         /\ ReturnedBefore("get_board_lists", board[1], n)
         /\ ReturnedBefore("get_list_cards", cur_list[1], n)

\* list 2 was picked as the source, both of its cards were selected, and
\* list 2 was picked again as the target
C24_Witness ==
  /\ handler = Some("move_cards") /\ cpc = "handler_return"
  /\ cur_list = Some(Id("list", 2)) /\ target = cur_list
  /\ Len(selected) = 2 /\ hres = Some(FALSE)

\* ---------------------------------------------------------------- C25
\* the ids the label-create calls of the current run returned
LabelIdsOfRun ==
  {calls[n].ret : n \in {m \in DOMAIN calls : calls[m].op = "label" /\ calls[m].ok}}

\* the names of the labels the current run created
LabelNamesOfRun ==
  {template.labels[calls[n].idx[1]] :
     n \in {m \in DOMAIN calls : calls[m].op = "label" /\ calls[m].ok}}

\* C25: in every run of generate on one BoardGenerator, the first as the
\* later ones, the progress record and the label map hold nothing of an
\* earlier run: the created counts are the successes of this run's calls,
\* the errors are the failures of this run's label-, list- and card-create
\* calls, the totals are those of the template, the label map maps the
\* names of the labels this run created to ids this run was given, and a
\* card is given only label ids this run was given.
C25_RunsAreIndependent ==
  run >= 1 =>
    /\ progress.labels_created = OkCount("label")
    /\ progress.lists_created = OkCount("list")
    /\ progress.cards_created = OkCount("card")
    /\ progress.errors = SelectSeq(FailedOps, LAMBDA e : e[1] # "board")
    /\ progress.total_lists = Len(template.lists)
    /\ progress.total_cards = total_cards(template.lists)
    /\ DOMAIN label_map = LabelNamesOfRun
    /\ \A name \in DOMAIN label_map : label_map[name] \in LabelIdsOfRun
    /\ \A n \in DOMAIN calls :
         calls[n].op = "card" /\ calls[n].labels # None =>
           Range(calls[n].labels[1]) \subseteq LabelIdsOfRun
    /\ Returned =>
         /\ result[1].labels_created = OkCount("label")
         /\ result[1].lists_created = OkCount("list")
         /\ result[1].cards_created = OkCount("card")

\* the first run created the board, label Q, the list and its card (ids 1
\* to 4); in the second run the create of label Q failed, and the card that
\* refers to Q was created with no label
C25_Witness ==
  /\ run = 2 /\ Returned /\ nextId = 8
  /\ template = [labels |-> <<"Q">>, lists |-> << << <<"Q">> >> >>]
  /\ FailCount("label") = 1 /\ OkCount("list") = 1 /\ OkCount("card") = 1
  /\ \A n \in DOMAIN calls : calls[n].op = "card" => calls[n].labels = None
  /\ progress.errors = << <<"label", 1, 0>> >>

\* ---------------------------------------------------------------- C26
\* the created counts of progress record p are within the template
Within(p) ==
  /\ p.labels_created <= Len(template.labels)
  /\ p.lists_created <= p.total_lists
  /\ p.cards_created <= p.total_cards

\* no created count of q is below that of p
NotBelow(p, q) ==
  /\ p.labels_created <= q.labels_created
  /\ p.lists_created <= q.lists_created
  /\ p.cards_created <= q.cards_created

RECURSIVE SkippedCards(_)
\* the cards of the lists 1..k whose create call failed
SkippedCards(k) ==
  IF k = 0 THEN 0
  ELSE SkippedCards(k - 1)
         + (IF \E n \in CallsFor("list", k, 0) : ~calls[n].ok
              THEN Len(template.lists[k]) ELSE 0)

\* the state part of C26
CountsWithin ==
  /\ Within(progress)
  /\ \A i \in DOMAIN cbLog : Within(cbLog[i].progress)
  /\ \A i, j \in DOMAIN cbLog :
       i < j => NotBelow(cbLog[i].progress, cbLog[j].progress)
  /\ \A i \in DOMAIN cbLog : NotBelow(cbLog[i].progress, progress)
  /\ Returned =>
       progress.cards_created + FailCount("card")
         + SkippedCards(Len(template.lists)) = progress.total_cards

\* C26: at every progress-callback invocation and when generate returns,
\* labels_created is at most the number of template labels, lists_created
\* at most total_lists and cards_created at most total_cards; no step of a
\* run decreases any of the three counts; and when generate returns,
\* cards_created plus the failed card-create calls plus the cards of the
\* lists whose create failed is total_cards.
C26_CountsBounded ==
  /\ []CountsWithin
  /\ [][run' = run => NotBelow(progress, progress')]_vars

\* with a callback: the first list, of one card, was not created, the
\* second was and the create of its card failed: 0 + 1 + 1 = 2
C26_Witness ==
  /\ Returned /\ hasCallback
  /\ Len(template.lists) = 2 /\ Len(template.lists[1]) = 1
  /\ \E n \in CallsFor("list", 1, 0) : ~calls[n].ok
  /\ \E n \in CallsFor("card", 2, 1) : ~calls[n].ok
  /\ progress.cards_created = 0 /\ progress.total_cards = 2
  /\ progress.lists_created = 1

\* ---------------------------------------------------------------- C27
\* this step is a label-, list- or card-create call that failed
FailedCreate ==
  /\ Len(calls') = Len(calls) + 1
  /\ ~calls'[Len(calls')].ok
  /\ calls'[Len(calls')].op \in {"label", "list", "card"}

\* C27: a step of generate in which a label-, list- or card-create call
\* fails appends one entry, for that call, to progress.errors and changes
\* nothing else: the created counts, the totals, current_step and the
\* label map stay as they are and the progress callback is not invoked.
C27_FailureOnlyLogs ==
  [][FailedCreate =>
       LET c == calls'[Len(calls')]
       IN  /\ progress' = [progress EXCEPT
                             !.errors = Append(@, <<c.op, c.idx[1], c.idx[2]>>)]
           /\ label_map' = label_map
           /\ cbLog' = cbLog
           /\ result' = result
           /\ nextId' = nextId]_vars

\* with a callback, the create of the second label has just failed after
\* that of the first succeeded: the step is still that of the first label
C27_Witness ==
  /\ hasCallback /\ pc = "labels" /\ Len(calls) = 3
  /\ calls[2].ok /\ ~calls[3].ok /\ calls[3].op = "label"
  /\ progress.current_step = <<"Created label", 1, 0>>
  /\ progress.labels_created = 1
  /\ progress.errors = << <<"label", 2, 0>> >>
  /\ cbLog[Len(cbLog)].after = 2
  /\ DOMAIN label_map = {template.labels[1]}

\* ---------------------------------------------------------------- C28
\* the create operations of the creation flow
CreateOps == {"create_board", "label", "list", "card"}

\* C28: in the creation mode of main the first remote call is
\* verify_credentials, every create call comes after it has returned, and
\* once it has raised TrelloAPIError no other call is made and main
\* returns 1.
C28_VerifyBeforeCreate ==
  CreationFlow /\ rlog # <<>> =>
    /\ rlog[1].op = "verify_credentials"
    /\ \A n \in DOMAIN rlog :
         rlog[n].op \in CreateOps => n > 1 /\ rlog[1].out = "ok"
    /\ rlog[1].out = "TrelloAPIError" =>
         Len(rlog) = 1 /\ cpc = "exit" /\ cmd_out = Return(1)

\* the verification failed: it is the only call, and main returned 1
C28_Witness ==
  /\ CreationFlow /\ cpc = "exit" /\ cmd_out = Return(1)
  /\ rlog = <<Remote("verify_credentials", None, "TrelloAPIError")>>

\* ---------------------------------------------------------------- C29
\* the board id the delete command was given, if it was given one
ExplicitBoard == args.board_id # None /\ args.board_id[1] # <<>>

\* C29: an invocation makes at most one delete_board call, for the board
\* id given or, without one, for an id of the listing shown, and only after
\* a get_board call for that id has returned in this invocation; once a
\* get_board call of the delete command has raised TrelloAPIError there is
\* no delete_board call and the command returns 1.
C29_DeleteAfterGetBoard ==
  /\ Len(CallsTo("delete_board")) <= 1
  /\ \A n \in DOMAIN rlog :
       rlog[n].op = "delete_board" =>
         /\ impl = "cli" /\ main_mode(args.flags) = "delete_board_command"
         /\ ReturnedBefore("get_board", rlog[n].arg, n)
         /\ IF ExplicitBoard THEN rlog[n].arg = args.board_id[1]
            ELSE /\ rlog[n].arg \in Range(items)
                 /\ board = Some(rlog[n].arg)
  /\ \A n \in DOMAIN rlog :
       /\ impl = "cli" /\ main_mode(args.flags) = "delete_board_command"
       /\ rlog[n].op = "get_board" /\ rlog[n].out = "TrelloAPIError"
       => /\ CallsTo("delete_board") = <<>>
          /\ n = Len(rlog) /\ cpc = "exit" /\ cmd_out = Return(1)

\* the second board of the listing was selected, looked up, confirmed and
\* deleted
C29_Witness ==
  /\ ~ExplicitBoard /\ ~args.yes /\ cpc = "exit" /\ cmd_out = Return(0)
  /\ rlog = <<Remote("list_boards", None, "ok"),
              Remote("get_board", Id("board", 2), "ok"),
              Remote("delete_board", Id("board", 2), "ok")>>

\* ---------------------------------------------------------------- C30
\* the session ended without a board: none was given to look up, and the
\* listing failed, was empty, or was left with "0"
NoBoardSelected ==
  /\ cpc = "exit" /\ cmd_out # None /\ cmd_out[1].kind = "return"
  /\ ~ExplicitBoard /\ board = None

\* C30: edit.run_edit_session and cli.edit_board_command return the same
\* exit code for the same board id argument, remote responses and input:
\* the two share every step but the value returned when no board was
\* selected, so a session that ends there returns the value either of them
\* gives for its board id argument.
C30_Original ==
  NoBoardSelected =>
    \A im \in {"cli", "edit"} :
      cmd_out = Return(no_board_selected(im, args.board_id))

TypeOK ==
  /\ pc \in {"idle", "board", "labels", "lists", "cards", "done", "raised"}
  /\ run \in 0..MaxRuns
  /\ Len(calls) <= 1 + MaxLabels + MaxLists + MaxCards
====
